---- MODULE Spec2Model ----
(***************************************************************************)
(* Chunk streaming and elevation queries of the mow terrain.               *)
(*                                                                         *)
(* The repository holds several versions of TerrainGenerator:              *)
(*   "updateTerrain"  client/src/lib/game/TerrainGenerator.ts (ponds,      *)
(*                    seed, eviction of everything outside the square),    *)
(*   "visibleChunks"  unnamed/part_002 (current focal chunk, eviction      *)
(*                    beyond loadDistance + 1)                             *)
(* the chunked SceneryGenerator of unnamed/part_005 ("scenery"), the      *)
(* SceneryGenerator of client/src/components/WeatherTransition.tsx that    *)
(* places one set of scenery around the origin ("generateScenery"),        *)
(* and two versions of GrassSystem:                                        *)
(*   "grass"          client/src/lib/game/GrassSystem.ts (one lawn,        *)
(*                    omnidirectional mow),                                *)
(*   "chunkedGrass"   client/src/components/GameHUD.tsx (a batch of blades *)
(*                    per focal chunk, directional mow).                   *)
(* A running game is linked with one of each kind: variable `variant` says *)
(* which object a behaviour follows, and every action belongs to one       *)
(* variant.                                                                *)
(*                                                                         *)
(* Units: terrain coordinates are whole metres, elevations are thousandths *)
(* of a metre (0.15 is 150); blade and mower coordinates are tenths of a   *)
(* metre (0.8 is 8).                                                       *)
(***************************************************************************)
EXTENDS Integers, Sequences, FiniteSets, TLC

VARIABLES
    variant,        \* which version of the streamer this game runs
    op,             \* the operation that produced the current state
    playerPosition, \* the position <<x, z>> handed to the last update
    chunks,         \* TerrainGenerator.ts: chunkKey -> [heightMap]
    pondLocations,  \* TerrainGenerator.ts: chunkKey -> sequence of ponds
    seed,           \* TerrainGenerator.ts: session seed
    terrainChunks,  \* part_002: keys of the chunks that have a mesh
    heightMaps,     \* part_002: chunkKey -> cached height map
    currentChunkX,  \* part_002: focal chunk of the last update
    currentChunkZ,
    sceneryChunks,  \* part_005: chunkKey -> [objects, generated]
    sceneryObjects, \* part_005: the live objects, in creation order
    currentPlayerChunk, \* part_005: focal chunk of the last update
    scenerySeed,    \* part_005: seed = Date.now() at construction
    generations,    \* history: [key, created] for each chunk generation of part_005
    discoveries,    \* part_005: the onSceneryDiscovered calls so far, [type, x, y, z]
    placedObjects,  \* WeatherTransition.tsx: SceneryGenerator.sceneryObjects [type, mesh]
    obstacles,      \* TerrainGenerator.ts: the obstacle meshes, in insertion order
    meshes,         \* number of THREE.Group objects created so far (mesh identity)
    grassMesh,      \* GrassSystem: TRUE once initialize() has built the mesh
    grassData,      \* GrassSystem: the blades [position, state], in creation order
    totalGrass,     \* GrassSystem: number reported by getTotalGrass()
    mowedGrass,     \* GrassSystem: the cut counter
    grassPlayerChunk, \* GrassSystem (GameHUD.tsx): currentPlayerChunk
    mowPositions,   \* history: the positions mow() was called with since the
                    \* blades were last all uncut
    batches,        \* history: the chunk of every generateGrassInChunk call
    isRunning,      \* GameManager (part_000): the game is not paused
    gameStarted,    \* GameManager: startGame() was called since the last reset
    mowerRunning,   \* GameManager: the mower is switched on
    totalAreaMowed, \* GameManager: the blades counted by update()
    terrainCall,    \* GameManager: the updateTerrain call suspended at an await
    sceneryCall,    \* GameManager: the generateScenery call suspended at an await
    heightQueries,  \* the getHeightAt calls grass, scenery and mower made in the last step
    result          \* what the last query or mow call did and returned

terrainVars == <<chunks, pondLocations, seed>>
streamVars == <<terrainChunks, heightMaps, currentChunkX, currentChunkZ>>

sceneryVars == <<sceneryChunks, sceneryObjects, currentPlayerChunk, scenerySeed, generations,
                 discoveries>>

grassVars ==
    <<grassMesh, grassData, totalGrass, mowedGrass, grassPlayerChunk, mowPositions, batches>>

placerVars == <<placedObjects, obstacles, meshes>>

gameVars ==
    <<isRunning, gameStarted, mowerRunning, totalAreaMowed, terrainCall, sceneryCall,
      heightQueries>>

vars == <<variant, op, playerPosition, terrainVars, streamVars, sceneryVars, grassVars,
         placerVars, gameVars, result>>

(***************************************************************************)
(* Bounds of the model.                                                    *)
(***************************************************************************)
\* focal chunk coordinates visited: x in -1..MaxFocalX, z in 0..MaxFocalZ
MaxFocalX == 2
MaxFocalZ == 0
\* Math.random() yields a pond (pondCount = 1) at most MaxPonds times per session
MaxPonds == 1
\* updateSceneryChunks is followed while fewer than MaxObjects objects are live
MaxObjects == 160
\* GrassSystem.ts grassCount (100000 in the source): the blades of the lawn
lawnGrassCount == 3
\* GameHUD.tsx grassCount (80000 in the source): the population cap
grassCount == 4
\* GameHUD.tsx grassPerChunk (10000 in the source): candidates per batch
grassPerChunk == 2
\* at most MaxBatches batches of blades are generated in one session
MaxBatches == 4
\* WeatherTransition.tsx propertyCount (4..6 in the source) is 1..MaxProperties
MaxProperties == 2
\* fence segments around one yard (Math.ceil(distance / 2) per side in the
\* source) are 1..MaxSegments
MaxSegments == 2
\* WeatherTransition.tsx treeCount (60 in the source)
treeCount == 2
\* WeatherTransition.tsx benchCount (8 in the source)
benchCount == 1
\* generateScenery is followed while fewer than MaxMeshes groups were created
MaxMeshes == 16

(***************************************************************************)
(* Program constants of TerrainGenerator.ts.                               *)
(***************************************************************************)
chunkSize == 50
chunkResolution == 1
visibleDistance == 2
maxHeight == 1200
waterLevel == 150

Max(a, b) == IF a >= b THEN a ELSE b
Min(a, b) == IF a <= b THEN a ELSE b
Abs(a) == IF a >= 0 THEN a ELSE -a

\* Math.sqrt on a non-negative integer, rounded down
RECURSIVE SqrtSearch(_, _, _)
SqrtSearch(n, lo, hi) ==
    IF lo >= hi THEN lo
    ELSE LET mid == (lo + hi + 1) \div 2
         IN  IF mid * mid <= n THEN SqrtSearch(n, mid, hi)
                               ELSE SqrtSearch(n, lo, mid - 1)

Sqrt(n) == SqrtSearch(n, 0, Min(n, 46340))

\* Chebyshev distance of two chunk keys
Chebyshev(a, b) == Max(Abs(a[1] - b[1]), Abs(a[2] - b[2]))

\* a Map.set on a map held as a function
MapSet(map, key, value) == [k \in DOMAIN map \cup {key} |-> IF k = key THEN value ELSE map[k]]

\* the entries of a map whose keys are in `keys`
MapKeep(map, keys) == [k \in DOMAIN map \cap keys |-> map[k]]

EmptyMap == <<>>

(***************************************************************************)
(* World coordinates handed to getHeightAt.  A coordinate is m metres, or  *)
(* (eps = 1) the double just below m: for m = 0 that is a tiny negative    *)
(* number such as -1e-17, whose chunk is -1 and whose sum with chunkSize   *)
(* rounds to chunkSize exactly.                                            *)
(***************************************************************************)
Whole(m) == [m |-> m, eps |-> 0]
Below(m) == [m |-> m, eps |-> 1]

\* Math.floor(x / size)
FloorDiv(c, size) == IF c.eps = 1 THEN (c.m - 1) \div size ELSE c.m \div size

\* x - chunk * size in double arithmetic: the tiny part is rounded away
LocalCoord(c, chunk, size) == c.m - chunk * size

(***************************************************************************)
(* TerrainGenerator.ts: elevation.                                         *)
(***************************************************************************)
\* createNoise2D(): a fixed coherent-noise sampler; arguments in hundredths,
\* value in thousandths, -1000..1000
noise2D(a, b) == ((a * a * 3 + b * b * 5 + a * b * 7 + a * 11 + b * 13) % 2001) - 1000

\* lines 214-232: four octaves, normalised, shaped by pow(h, 1.5), scaled
baseHeight(sd, x, z) ==
    LET nx == x * 2 + sd * 100
        nz == z * 2 + sd * 100
        sum == (noise2D(nx, nz) * 8 + noise2D(nx * 2, nz * 2) * 4
                + noise2D(nx * 4, nz * 4) * 2 + noise2D(nx * 8, nz * 8)) \div 16
        h == (sum + 1000) \div 2
        shaped == (h * Sqrt(h * 1000)) \div 1000
    IN  (shaped * maxHeight) \div 1000

\* lines 251-264: the height at distanceToPond (thousandths of a metre) from
\* the centre of a pond of radius r (metres), where the noise height is
\* `height`
pondFalloff(height, distanceToPond, r) ==
    IF distanceToPond < 1000 * r
    THEN LET depthFactor == 1000 - distanceToPond \div r
             pondDepth == 100 + (200 * depthFactor) \div 1000
         IN  waterLevel - pondDepth
    ELSE IF 2 * distanceToPond < 3000 * r
    THEN LET transitionFactor == 1000 - (2 * (distanceToPond - 1000 * r)) \div r
         IN  (height * (1000 - transitionFactor) + waterLevel * transitionFactor) \div 1000
    ELSE height

\* lines 245-264 (and 281-294): the effect of one pond on the height at (x, z)
pondEffect(height, pond, x, z) ==
    LET dx == x - pond.x
        dz == z - pond.z
        d2 == dx * dx + dz * dz
    IN  IF 4 * d2 < 9 * pond.radius * pond.radius
        THEN pondFalloff(height, Sqrt(d2 * 1000000), pond.radius)
        ELSE height

RECURSIVE pondsEffect(_, _, _, _, _)
pondsEffect(height, ponds, i, x, z) ==
    IF i > Len(ponds) THEN height
    ELSE pondsEffect(pondEffect(height, ponds[i], x, z), ponds, i + 1, x, z)

\* lines 237 and 269-274: the containing chunk, then its eight neighbours
pondChunks(chunkX, chunkZ) ==
    << <<chunkX, chunkZ>>,
       <<chunkX - 1, chunkZ>>, <<chunkX + 1, chunkZ>>,
       <<chunkX, chunkZ - 1>>, <<chunkX, chunkZ + 1>>,
       <<chunkX - 1, chunkZ - 1>>, <<chunkX + 1, chunkZ - 1>>,
       <<chunkX - 1, chunkZ + 1>>, <<chunkX + 1, chunkZ + 1>> >>

RECURSIVE chunksEffect(_, _, _, _, _, _)
chunksEffect(height, pl, keys, i, x, z) ==
    IF i > Len(keys) THEN height
    ELSE IF keys[i] \in DOMAIN pl
         THEN chunksEffect(pondsEffect(height, pl[keys[i]], 1, x, z), pl, keys, i + 1, x, z)
         ELSE chunksEffect(height, pl, keys, i + 1, x, z)

\* calculateHeightAt(x, z) with pond map pl and seed sd
calculateHeightAt(pl, sd, cx, cz) ==
    LET chunkX == FloorDiv(cx, chunkSize)
        chunkZ == FloorDiv(cz, chunkSize)
    IN  chunksEffect(baseHeight(sd, cx.m, cz.m), pl, pondChunks(chunkX, chunkZ), 1, cx.m, cz.m)

gridSize == (chunkSize + chunkResolution - 1) \div chunkResolution + 1

(***************************************************************************)
(* A cached height map has gridSize rows of gridSize samples, each the     *)
(* value calculateHeightAt had when the chunk was created.  The state      *)
(* keeps what generateChunkHeightMap computed the samples from (the chunk  *)
(* coordinate, the seed and the ponds it could read at that moment);       *)
(* heightMapAt is the sample heightMap[z][x].                              *)
(***************************************************************************)
\* the entries of pondLocations that calculateHeightAt can read while the
\* grid of chunk (chunkX, chunkZ) is generated: the grid's last row and
\* column lie in the next chunk, whose neighbours reach one chunk further
readPonds(pl, chunkX, chunkZ) ==
    [k \in {k \in ((chunkX - 1)..(chunkX + 2)) \X ((chunkZ - 1)..(chunkZ + 2)) :
                k \in DOMAIN pl /\ Len(pl[k]) > 0} |-> pl[k]]

\* generateChunkHeightMap: heightMap[z][x] = calculateHeightAt(worldX, worldZ)
generateChunkHeightMap(pl, sd, chunkX, chunkZ) ==
    [chunkX |-> chunkX, chunkZ |-> chunkZ, length |-> gridSize,
     seed |-> sd, ponds |-> readPonds(pl, chunkX, chunkZ)]

heightMapAt(heightMap, z, x) ==
    calculateHeightAt(heightMap.ponds, heightMap.seed,
                      Whole(heightMap.chunkX * chunkSize + x * chunkResolution),
                      Whole(heightMap.chunkZ * chunkSize + z * chunkResolution))

(***************************************************************************)
(* TerrainGenerator.ts: chunk creation and streaming.                      *)
(***************************************************************************)
\* what Math.random() gives generatePondsForChunk when pondCount = 1:
\* <<localX, localZ, radius>>, one pond near the low corner of the chunk and
\* one near its high corner
PondInputs == { <<1, 1, 5>>, <<49, 49, 7>> }

\* generatePondsForChunk: no pond, or the one pond drawn for this chunk
generatePondsForChunk(chunkX, chunkZ, draw) ==
    IF <<chunkX, chunkZ>> \in DOMAIN draw
    THEN LET d == draw[<<chunkX, chunkZ>>]
         IN  << [x |-> chunkX * chunkSize + d[1],
                 z |-> chunkZ * chunkSize + d[2],
                 radius |-> d[3]] >>
    ELSE << >>

\* createChunk: ponds first (if this chunk never had them), then the height map
createChunk(st, sd, chunkX, chunkZ, draw) ==
    LET chunkKey == <<chunkX, chunkZ>>
        pl == IF chunkKey \in DOMAIN st.pondLocations
              THEN st.pondLocations
              ELSE MapSet(st.pondLocations, chunkKey, generatePondsForChunk(chunkX, chunkZ, draw))
        heightMap == generateChunkHeightMap(pl, sd, chunkX, chunkZ)
    IN  [chunks |-> MapSet(st.chunks, chunkKey, [heightMap |-> heightMap]),
         pondLocations |-> pl]

\* the keys visited by two nested loops "for x in cx-r..cx+r, for z in
\* cz-r..cz+r", in loop order
squareKeys(cx, cz, r) ==
    LET n == 2 * r + 1
    IN  [i \in 1..(n * n) |-> <<cx - r + (i - 1) \div n, cz - r + ((i - 1) % n)>>]

\* a loop bound written "<" instead of "<=": the last row and column are skipped
visibleKeysExclusive(playerChunkX, playerChunkZ) ==
    LET n == 2 * visibleDistance
    IN  [i \in 1..(n * n) |-> <<playerChunkX - visibleDistance + (i - 1) \div n,
                                playerChunkZ - visibleDistance + ((i - 1) % n)>>]

\* lines 59-60: the loops of updateTerrain
visibleKeys(playerChunkX, playerChunkZ) ==
    squareKeys(playerChunkX, playerChunkZ, visibleDistance)

\* the "if (!this.chunks.has(chunkKey))" test left out: every visible chunk
\* is created again on every update
RECURSIVE createAlways(_, _, _, _, _)
createAlways(st, sd, keys, i, draw) ==
    IF i > Len(keys) THEN st
    ELSE createAlways(createChunk(st, sd, keys[i][1], keys[i][2], draw),
                      sd, keys, i + 1, draw)

RECURSIVE createMissing(_, _, _, _, _)
createMissing(st, sd, keys, i, draw) ==
    IF i > Len(keys) THEN st
    ELSE IF keys[i] \in DOMAIN st.chunks
         THEN createMissing(st, sd, keys, i + 1, draw)
         ELSE createMissing(createChunk(st, sd, keys[i][1], keys[i][2], draw),
                            sd, keys, i + 1, draw)

Range(f) == {f[i] : i \in DOMAIN f}

\* lines 71-81: the chunks that survive an update
chunksToKeep(playerChunkX, playerChunkZ) == Range(visibleKeys(playerChunkX, playerChunkZ))

\* lines 52-53: Math.floor(playerPosition.x / this.chunkSize)
playerChunk(p) == p \div chunkSize

\* updateTerrain(playerPosition), run to completion
updateTerrain(st, sd, px, pz, draw) ==
    LET playerChunkX == playerChunk(px)
        playerChunkZ == playerChunk(pz)
        made == createMissing(st, sd, visibleKeys(playerChunkX, playerChunkZ), 1, draw)
    IN  [chunks |-> MapKeep(made.chunks, chunksToKeep(playerChunkX, playerChunkZ)),
         pondLocations |-> made.pondLocations]

\* number of ponds generated so far
RECURSIVE pondCount(_, _)
pondCount(pl, keys) ==
    IF keys = {} THEN 0
    ELSE LET k == CHOOSE k \in keys : TRUE
         IN  Len(pl[k]) + pondCount(pl, keys \ {k})

\* the outcomes of Math.random() in one update: which of the chunks that get
\* their ponds generated now draw a pond, and which one
RECURSIVE Draws(_, _)
Draws(candidates, n) ==
    IF n <= 0 THEN { EmptyMap }
    ELSE LET less == Draws(candidates, n - 1)
         IN  less \cup { MapSet(d, k, pi) :
                         d \in less, k \in candidates, pi \in PondInputs }

\* the chunks for which Math.random() may yield a pond: the origin chunk
\* (created by initialize) and one that is first created by a later update
PondChunks == { <<0, 0>>, <<3, 0>> }

pondCandidates(st, px, pz) ==
    (Range(visibleKeys(playerChunk(px), playerChunk(pz))) \cap PondChunks)
        \ (DOMAIN st.chunks \cup DOMAIN st.pondLocations)

\* focal positions the mower is driven to
FocalPositions ==
    { <<0, 0>>, <<130, 0>> } \cup
    { <<cx * chunkSize + 30, cz * chunkSize + 10>> : cx \in (-1)..MaxFocalX, cz \in 0..MaxFocalZ }

\* Math.random() * 10000
Seeds == {0, 1}

\* positions at which elevation is queried: a chunk corner, the doubles
\* just below it, a chunk never loaded, the last cell of a chunk, the
\* corner of a chunk that a later update loads
QueryPoints ==
    { <<Whole(0), Whole(0)>>, <<Below(0), Whole(0)>>, <<Whole(0), Below(0)>>,
      <<Whole(-150), Whole(0)>>, <<Whole(49), Whole(49)>>, <<Whole(150), Whole(0)>> }

(***************************************************************************)
(* TerrainGenerator.ts: getHeightAt.                                       *)
(***************************************************************************)
\* lines 342-355 for one axis: the two grid indices read, from the local
\* coordinate and the number of samples on that axis
\* the indices without the clamps of lines 347-354
gridIndicesUnclamped(local, length) ==
    LET grid == local \div chunkResolution
    IN  <<grid, grid + 1>>

gridIndices(local, length) ==
    LET grid == local \div chunkResolution
        gridSizeX == length - 1
        clampedGrid == Max(0, Min(grid, gridSizeX))
        i0 == Min(clampedGrid, gridSizeX - 1)
        i1 == Min(i0 + 1, gridSizeX)
    IN  <<i0, i1>>

\* reading heightMap[z][x] in JavaScript: undefined outside the array
InGrid(heightMap, i) == i \in 0..(heightMap.length - 1)

\* a fallback that materialises the missing chunk before it answers
unloadedHeightCreatingChunk(ch, pl, sd, cx, cz) ==
    LET st == createChunk([chunks |-> ch, pondLocations |-> pl], sd,
                          FloorDiv(cx, chunkSize), FloorDiv(cz, chunkSize), EmptyMap)
    IN  [chunks |-> st.chunks, pondLocations |-> st.pondLocations,
         result |-> [fn |-> "getHeightAt", cached |-> FALSE, x |-> cx, z |-> cz,
                     height |-> calculateHeightAt(st.pondLocations, sd, cx, cz)]]

\* lines 331-334: the chunk is not loaded, the height is calculated
unloadedHeight(ch, pl, sd, cx, cz) ==
    [chunks |-> ch, pondLocations |-> pl,
     result |-> [fn |-> "getHeightAt", cached |-> FALSE, x |-> cx, z |-> cz,
                 height |-> calculateHeightAt(pl, sd, cx, cz)]]

\* getHeightAt(x, z) as a function of the state it reads
getHeightAt(ch, pl, sd, cx, cz) ==
    LET chunkX == FloorDiv(cx, chunkSize)
        chunkZ == FloorDiv(cz, chunkSize)
        chunkKey == <<chunkX, chunkZ>>
    IN  IF chunkKey \notin DOMAIN ch
        THEN unloadedHeight(ch, pl, sd, cx, cz)
        ELSE LET localX == LocalCoord(cx, chunkX, chunkSize)
                 localZ == LocalCoord(cz, chunkZ, chunkSize)
                 heightMap == ch[chunkKey].heightMap
                 ix == gridIndices(localX, heightMap.length)
                 iz == gridIndices(localZ, heightMap.length)
                 x0 == ix[1]
                 x1 == ix[2]
                 z0 == iz[1]
                 z1 == iz[2]
                 inside == \A i \in {x0, x1, z0, z1} : InGrid(heightMap, i)
                 fx == localX \div chunkResolution - x0
                 fz == localZ \div chunkResolution - z0
                 top == heightMapAt(heightMap, z0, x0) * (1 - fx)
                        + heightMapAt(heightMap, z0, x1) * fx
                 bottom == heightMapAt(heightMap, z1, x0) * (1 - fx)
                           + heightMapAt(heightMap, z1, x1) * fx
             IN  [chunks |-> ch, pondLocations |-> pl,
                  result |-> [fn |-> "getHeightAt", cached |-> TRUE, x |-> cx, z |-> cz,
                              x0 |-> x0, x1 |-> x1, z0 |-> z0, z1 |-> z1,
                              length |-> heightMap.length,
                              height |-> IF inside THEN top * (1 - fz) + bottom * fz
                                                   ELSE "undefined"]]

(***************************************************************************)
(* unnamed/part_002: the streamer that tracks the current focal chunk.     *)
(* GameManager (part_010) constructs it with width = depth = 100.          *)
(***************************************************************************)
width == 100
cellSize == 1
loadDistance == 2

\* lines 92-105: four octaves, never below 0; thousandths
octaveHeight(worldX, worldZ) ==
    Max(0, (noise2D(worldX * 2, worldZ * 2) * 8 + noise2D(worldX * 4, worldZ * 4) * 4
            + noise2D(worldX * 8, worldZ * 8) * 2 + noise2D(worldX * 16, worldZ * 16)) \div 16)

\* generateHeightMapForChunk: heightMaps.set(chunkKey, heightMap); the map
\* is kept as its chunk coordinate and its number of rows and columns,
\* entry [z][x] being octaveHeight at that sample's world position
generateHeightMapForChunk(hms, chunkX, chunkZ) ==
    MapSet(hms, <<chunkX, chunkZ>>,
           [chunkX |-> chunkX, chunkZ |-> chunkZ,
            length |-> (width + cellSize - 1) \div cellSize + 1])

streamHeightMapAt(heightMap, z, x) ==
    octaveHeight(x * cellSize + heightMap.chunkX * width,
                 z * cellSize + heightMap.chunkZ * width)

\* generateChunk: nothing for a chunk that exists
generateChunk(st, chunkX, chunkZ) ==
    IF <<chunkX, chunkZ>> \in st.terrainChunks
    THEN st
    ELSE [st EXCEPT !.heightMaps = generateHeightMapForChunk(st.heightMaps, chunkX, chunkZ),
                    !.terrainChunks = st.terrainChunks \cup {<<chunkX, chunkZ>>}]

RECURSIVE generateChunks(_, _, _)
generateChunks(st, keys, i) ==
    IF i > Len(keys) THEN st
    ELSE generateChunks(generateChunk(st, keys[i][1], keys[i][2]), keys, i + 1)

\* the eviction threshold without its margin of one chunk
tooFarAtLoadDistance(key, chunkX, chunkZ) ==
    Max(Abs(key[1] - chunkX), Abs(key[2] - chunkZ)) > loadDistance

\* lines 163-176: a chunk is removed when it is further than loadDistance + 1
tooFar(key, chunkX, chunkZ) ==
    Max(Abs(key[1] - chunkX), Abs(key[2] - chunkZ)) > loadDistance + 1

\* updateVisibleChunks(playerX, playerZ)
updateVisibleChunks(st, playerX, playerZ) ==
    LET chunkX == playerX \div width
        chunkZ == playerZ \div width
    IN  IF chunkX # st.currentChunkX \/ chunkZ # st.currentChunkZ
        THEN LET made == generateChunks([st EXCEPT !.currentChunkX = chunkX,
                                                   !.currentChunkZ = chunkZ],
                                        squareKeys(chunkX, chunkZ, loadDistance), 1)
                 removed == {key \in made.terrainChunks : tooFar(key, chunkX, chunkZ)}
             IN  [made EXCEPT !.terrainChunks = made.terrainChunks \ removed,
                              !.heightMaps = MapKeep(made.heightMaps,
                                                     DOMAIN made.heightMaps \ removed)]
        ELSE st

\* lines 200-205 for one axis: the two grid indices read
streamGridIndices(local, length) ==
    LET grid == local \div cellSize
        clampedGrid == Max(0, Min(grid, length - 2))
    IN  <<clampedGrid, clampedGrid + 1>>

\* getHeightAt(x, z): the height maps after the call and what it returns
streamGetHeightAt(hms, cx, cz) ==
    LET chunkX == FloorDiv(cx, width)
        chunkZ == FloorDiv(cz, width)
        chunkKey == <<chunkX, chunkZ>>
        localX == LocalCoord(cx, chunkX, width)
        localZ == LocalCoord(cz, chunkZ, width)
        maps == IF chunkKey \in DOMAIN hms
                THEN hms
                ELSE generateHeightMapForChunk(hms, chunkX, chunkZ)
        heightMap == maps[chunkKey]
        ix == streamGridIndices(localX, heightMap.length)
        iz == streamGridIndices(localZ, heightMap.length)
        x0 == ix[1]
        x1 == ix[2]
        z0 == iz[1]
        z1 == iz[2]
        inside == \A i \in {x0, x1, z0, z1} : InGrid(heightMap, i)
        fx == localX \div cellSize - x0
        fz == localZ \div cellSize - z0
        top == streamHeightMapAt(heightMap, z0, x0) * (1 - fx)
               + streamHeightMapAt(heightMap, z0, x1) * fx
        bottom == streamHeightMapAt(heightMap, z1, x0) * (1 - fx)
                  + streamHeightMapAt(heightMap, z1, x1) * fx
    IN  [heightMaps |-> maps,
         result |-> [fn |-> "getHeightAt", cached |-> TRUE, x |-> cx, z |-> cz,
                     x0 |-> x0, x1 |-> x1, z0 |-> z0, z1 |-> z1,
                     length |-> heightMap.length,
                     height |-> IF inside THEN top * (1 - fz) + bottom * fz
                                          ELSE "undefined"]]

StreamFocalPositions ==
    { <<0, 0>> } \cup
    { <<cx * width + 30, cz * width + 10>> : cx \in (-1)..MaxFocalX, cz \in 0..MaxFocalZ }

StreamQueryPoints ==
    { <<Whole(0), Whole(0)>>, <<Below(0), Whole(0)>>, <<Whole(0), Below(0)>>,
      <<Whole(-400), Whole(0)>>, <<Whole(99), Whole(99)>> }

(***************************************************************************)
(* unnamed/part_005: SceneryGenerator, chunk by chunk.  Its chunkSize is   *)
(* terrain.getSize().width and its elevations come from the terrain's      *)
(* getHeightAt, which at whole-metre positions of the part_002 terrain is  *)
(* octaveHeight.  Positions are cut to whole metres, rotations are         *)
(* thousandths of a turn, random() yields thousandths.                     *)
(***************************************************************************)
sceneryLoadDistance == 2

\* random(x, z, salt): frac(sin(x * 12.9898 + z * 78.233 + salt * 43.5453 + seed)
\* * 43758.5453), a fixed function of its arguments and the seed
random(sd, x, z, salt) ==
    LET n == (x * 129 + z * 782 + salt * 435 + sd) % 9973
    IN  (n * n * 7 + n * 13) % 1000

\* createHouse ... createBench: the record pushed on sceneryObjects
sceneryObject(type, x, z, rotation) ==
    [type |-> type, x |-> x, y |-> octaveHeight(x, z), z |-> z,
     rotation |-> rotation, discovered |-> FALSE]

\* "Skip if terrain is unsuitable": the object is created inside the band
placed(type, x, z, rotation, highest) ==
    LET y == octaveHeight(x, z)
    IN  IF y > highest \/ y < 100 THEN << >> ELSE << sceneryObject(type, x, z, rotation) >>

RECURSIVE treeObjects(_, _, _, _, _)
treeObjects(sd, chunkX, chunkZ, i, count) ==
    IF i >= count THEN << >>
    ELSE LET treeX == chunkX * width + (random(sd, chunkX, chunkZ, 10 + i) * width) \div 1000
             treeZ == chunkZ * width + (random(sd, chunkX, chunkZ, 20 + i) * width) \div 1000
         IN  placed("Tree", treeX, treeZ, 0, 4000)
             \o treeObjects(sd, chunkX, chunkZ, i + 1, count)

\* lines 332-359: the fence walk from (fenceX, fenceZ)
RECURSIVE fenceObjects(_, _, _, _, _, _, _, _)
fenceObjects(sd, chunkX, chunkZ, fenceX, fenceZ, fenceDirection, i, fenceLength) ==
    IF i >= fenceLength THEN << >>
    ELSE LET here == placed("Fence", fenceX, fenceZ, fenceDirection * 250, 3000)
             nextX == IF fenceDirection = 0 THEN fenceX + 2
                      ELSE IF fenceDirection = 2 THEN fenceX - 2 ELSE fenceX
             nextZ == IF fenceDirection = 1 THEN fenceZ + 2
                      ELSE IF fenceDirection = 3 THEN fenceZ - 2 ELSE fenceZ
             stillInChunk == /\ nextX >= chunkX * width
                             /\ nextX < chunkX * width + width
                             /\ nextZ >= chunkZ * width
                             /\ nextZ < chunkZ * width + width
             nextDirection == IF random(sd, nextX, nextZ, i) < 200
                              THEN (fenceDirection + 1) % 4
                              ELSE fenceDirection
         IN  IF stillInChunk
             THEN here \o fenceObjects(sd, chunkX, chunkZ, nextX, nextZ,
                                       nextDirection, i + 1, fenceLength)
             ELSE here

\* lines 210-361: the objects generateSceneryInChunk creates, in order
chunkObjects(sd, chunkX, chunkZ) ==
    LET startX == chunkX * width
        startZ == chunkZ * width
        randomValue == random(sd, chunkX, chunkZ, 0)
        at(base, span, salt) == (width * (base + (random(sd, chunkX, chunkZ, salt) * span) \div 1000)) \div 1000
        house == IF randomValue < 300
                 THEN placed("House", startX + at(300, 400, 2), startZ + at(300, 400, 3),
                             random(sd, chunkX, chunkZ, 4), 3000)
                 ELSE << >>
        trees == IF randomValue < 700
                 THEN treeObjects(sd, chunkX, chunkZ, 0,
                                  5 + (random(sd, chunkX, chunkZ, 1) * 5) \div 1000)
                 ELSE << >>
        garden == IF randomValue > 400 /\ randomValue < 500
                  THEN placed("Garden", startX + at(400, 200, 5), startZ + at(400, 200, 6), 0, 3000)
                  ELSE << >>
        shed == IF randomValue > 500 /\ randomValue < 600
                THEN placed("Shed", startX + at(200, 600, 7), startZ + at(200, 600, 8),
                            random(sd, chunkX, chunkZ, 9), 3000)
                ELSE << >>
        mailbox == IF randomValue > 900
                   THEN placed("Mailbox", startX + at(400, 200, 10), startZ + at(100, 200, 11), 0, 3000)
                   ELSE << >>
        bench == IF randomValue > 700 /\ randomValue < 800
                 THEN placed("Bench", startX + at(300, 400, 12), startZ + at(300, 400, 13),
                             random(sd, chunkX, chunkZ, 14), 3000)
                 ELSE << >>
        fence == IF randomValue > 750
                 THEN fenceObjects(sd, chunkX, chunkZ,
                                   startX + at(200, 600, 15), startZ + at(200, 600, 16),
                                   (random(sd, chunkX, chunkZ, 18) * 4) \div 1000, 0,
                                   5 + (random(sd, chunkX, chunkZ, 17) * 15) \div 1000)
                 ELSE << >>
    IN  house \o trees \o garden \o shed \o mailbox \o bench \o fence

\* a generation whose random() reads a seed that moves with the focal chunk
generateSceneryInChunkReseeded(st, sd, chunkX, chunkZ) ==
    IF <<chunkX, chunkZ>> \in DOMAIN st.sceneryChunks
       /\ st.sceneryChunks[<<chunkX, chunkZ>>].generated
    THEN st
    ELSE [st EXCEPT
            !.sceneryChunks = MapSet(st.sceneryChunks, <<chunkX, chunkZ>>,
                                     [objects |-> << >>, generated |-> TRUE]),
            !.sceneryObjects = @ \o chunkObjects(sd + st.currentPlayerChunk.x, chunkX, chunkZ),
            !.generations = Append(@, [key |-> <<chunkX, chunkZ>>,
                                       created |-> chunkObjects(sd + st.currentPlayerChunk.x,
                                                                chunkX, chunkZ)])]

\* generateSceneryInChunk: nothing for a generated chunk; otherwise the chunk
\* is entered into sceneryChunks with no objects of its own (createHouse ...
\* createBench push on sceneryObjects only) and marked generated
generateSceneryInChunk(st, sd, chunkX, chunkZ) ==
    LET chunkKey == <<chunkX, chunkZ>>
    IN  IF chunkKey \in DOMAIN st.sceneryChunks /\ st.sceneryChunks[chunkKey].generated
        THEN st
        ELSE [st EXCEPT
                !.sceneryChunks = MapSet(st.sceneryChunks, chunkKey,
                    [objects |-> IF chunkKey \in DOMAIN st.sceneryChunks
                                 THEN st.sceneryChunks[chunkKey].objects ELSE << >>,
                     generated |-> TRUE]),
                !.sceneryObjects = st.sceneryObjects \o chunkObjects(sd, chunkX, chunkZ),
                !.generations = Append(@, [key |-> chunkKey,
                                           created |-> chunkObjects(sd, chunkX, chunkZ)])]

RECURSIVE generateSceneryInArea(_, _, _, _)
generateSceneryInArea(st, sd, keys, i) ==
    IF i > Len(keys) THEN st
    ELSE generateSceneryInArea(generateSceneryInChunk(st, sd, keys[i][1], keys[i][2]),
                               sd, keys, i + 1)

\* line 174-177: findIndex(o => o === obj) and splice, for each object of a
\* removed chunk
RECURSIVE withoutObjects(_, _, _)
withoutObjects(list, objs, i) ==
    IF i > Len(objs) THEN list
    ELSE LET hits == {j \in 1..Len(list) : list[j] = objs[i]}
             rest == IF hits = {} THEN list
                     ELSE LET index == CHOOSE j \in hits : \A h \in hits : j <= h
                          IN  SubSeq(list, 1, index - 1) \o SubSeq(list, index + 1, Len(list))
         IN  withoutObjects(rest, objs, i + 1)

\* line 160: a scenery chunk is removed when it is further than maxDistance
sceneryTooFar(key, centerX, centerZ, maxDistance) ==
    Max(Abs(key[1] - centerX), Abs(key[2] - centerZ)) > maxDistance

RECURSIVE removeChunks(_, _)
removeChunks(st, keys) ==
    IF keys = {} THEN st
    ELSE LET key == CHOOSE k \in keys : TRUE
         IN  removeChunks(
                [st EXCEPT
                   !.sceneryObjects = withoutObjects(st.sceneryObjects,
                                                     st.sceneryChunks[key].objects, 1),
                   !.sceneryChunks = MapKeep(st.sceneryChunks, DOMAIN st.sceneryChunks \ {key})],
                keys \ {key})

removeDistantChunks(st, centerX, centerZ, maxDistance) ==
    removeChunks(st, {key \in DOMAIN st.sceneryChunks :
                        sceneryTooFar(key, centerX, centerZ, maxDistance)})

\* updateSceneryChunks(playerPosition)
updateSceneryChunks(st, sd, playerX, playerZ) ==
    LET chunkX == playerX \div width
        chunkZ == playerZ \div width
    IN  IF chunkX # st.currentPlayerChunk.x \/ chunkZ # st.currentPlayerChunk.z
        THEN removeDistantChunks(
                generateSceneryInArea([st EXCEPT !.currentPlayerChunk = [x |-> chunkX, z |-> chunkZ]],
                                      sd, squareKeys(chunkX, chunkZ, sceneryLoadDistance), 1),
                chunkX, chunkZ, sceneryLoadDistance + 1)
        ELSE st

\* discoveryRadius = 5, in metres
discoveryRadius == 5

\* playerPosition.distanceTo(scenery.position) < discoveryRadius; x and z are
\* metres, y is thousandths
inDiscoveryRange(scenery, position) ==
    LET dx == scenery.x - position.x
        dy == scenery.y - position.y
        dz == scenery.z - position.z
    IN  /\ dx * dx + dz * dz < discoveryRadius * discoveryRadius
        /\ Abs(dy) < discoveryRadius * 1000
        /\ (dx * dx + dz * dz) * 1000000 + dy * dy
              < discoveryRadius * discoveryRadius * 1000000

\* what onSceneryDiscovered is called for: the callback gets a name made of
\* the type; the log keeps the object's type and position
discovery(scenery) ==
    [type |-> scenery.type, x |-> scenery.x, y |-> scenery.y, z |-> scenery.z]

\* the objects the loop of lines 796-835 stops at: not discovered, in range
undiscoveredInRange(st, position) ==
    {k \in DOMAIN st.sceneryObjects :
        /\ ~st.sceneryObjects[k].discovered
        /\ inDiscoveryRange(st.sceneryObjects[k], position)}

\* lines 803-830 for object k: marked, and the callback called
discover(st, k) ==
    [st EXCEPT !.sceneryObjects[k].discovered = TRUE,
               !.discoveries = Append(@, discovery(st.sceneryObjects[k]))]

\* a loop without the "break" of line 833: every object in range is reported
checkForDiscoveryOfAll(st, position) ==
    LET found == undiscoveredInRange(st, position)
        nth(n) == CHOOSE k \in found : Cardinality({h \in found : h <= k}) = n
    IN  [st EXCEPT
           !.sceneryObjects = [k \in DOMAIN st.sceneryObjects |->
                                 IF k \in found
                                 THEN [st.sceneryObjects[k] EXCEPT !.discovered = TRUE]
                                 ELSE st.sceneryObjects[k]],
           !.discoveries = @ \o [n \in 1..Cardinality(found) |->
                                   discovery(st.sceneryObjects[nth(n)])]]

\* checkForDiscovery(playerPosition): the first object of the list that is
\* not discovered and in range is reported, then the loop breaks
checkForDiscovery(st, position) ==
    LET found == undiscoveredInRange(st, position)
    IN  IF found = {} THEN st
        ELSE discover(st, CHOOSE k \in found : \A h \in found : k <= h)

\* where the player stands when checkForDiscovery is called: at the first
\* object generated for chunk (-2, 0), or far from every object
DiscoveryPositions(sd) ==
    { [x |-> chunkObjects(sd, -2, 0)[k].x, y |-> chunkObjects(sd, -2, 0)[k].y,
       z |-> chunkObjects(sd, -2, 0)[k].z] : k \in DOMAIN chunkObjects(sd, -2, 0) \cap {1} }
    \cup { [x |-> 0, y |-> 100000, z |-> 0] }

(***************************************************************************)
(* GrassSystem.ts: one lawn of blades, mown in a circle around the mower.  *)
(* A blade is [position |-> [x, y, z], state]; scale, rotation and colour  *)
(* only feed the renderer.  y is what terrain.getHeightAt returned for     *)
(* (x, z) when the blade was created.                                      *)
(***************************************************************************)
\* mowRadius = 0.8, in tenths of a metre
mowRadius == 8

\* lines 81-111: the positions Math.random() can give the blades that are
\* kept, at 0.5, 0.8 and 1.0 from the origin (one of them off the x axis)
LawnCandidates ==
    { [x |-> 5, y |-> 300, z |-> 0], [x |-> 8, y |-> 300, z |-> 0],
      [x |-> 10, y |-> 300, z |-> 0], [x |-> 3, y |-> 300, z |-> 4] }

\* lines 105-110: grassData.push({position, scale, rotation, state: 0})
blade(candidate) == [position |-> candidate, state |-> 0]

\* generateGrass(): grassData replaced by grassCount new blades
generateGrass(st, draw) ==
    LET data == [i \in 1..lawnGrassCount |-> blade(draw[i])]
    IN  [st EXCEPT !.grassData = data, !.totalGrass = Len(data), !.mowedGrass = 0]

\* lines 159-161: dx * dx + dz * dz
distSquared(grass, position) ==
    LET dx == grass.position.x - position[1]
        dz == grass.position.z - position[2]
    IN  dx * dx + dz * dz

\* a cutting test that takes the rim of the circle in
withinRadiusInclusive(grass, position) ==
    distSquared(grass, position) <= mowRadius * mowRadius

\* line 163: distSquared < mowRadius * mowRadius
withinRadius(grass, position) ==
    distSquared(grass, position) < mowRadius * mowRadius

\* a loop without the "if (grass.state === 1) continue" of line 156
RECURSIVE mowLoopRecounting(_, _, _, _)
mowLoopRecounting(st, i, position, mowedThisFrame) ==
    IF i > Len(st.grassData)
    THEN [grassData |-> st.grassData, mowedGrass |-> st.mowedGrass,
          returned |-> mowedThisFrame]
    ELSE IF withinRadius(st.grassData[i], position)
    THEN mowLoopRecounting([st EXCEPT !.grassData[i].state = 1, !.mowedGrass = @ + 1],
                           i + 1, position, mowedThisFrame + 1)
    ELSE mowLoopRecounting(st, i + 1, position, mowedThisFrame)

\* lines 152-169: the loop of mow() from blade i on; mowedThisFrame is the
\* count of this call
RECURSIVE mowLoop(_, _, _, _)
mowLoop(st, i, position, mowedThisFrame) ==
    IF i > Len(st.grassData)
    THEN [grassData |-> st.grassData, mowedGrass |-> st.mowedGrass,
          returned |-> mowedThisFrame]
    ELSE IF st.grassData[i].state = 1
    THEN mowLoop(st, i + 1, position, mowedThisFrame)
    ELSE IF withinRadius(st.grassData[i], position)
    THEN mowLoop([st EXCEPT !.grassData[i].state = 1, !.mowedGrass = @ + 1],
                 i + 1, position, mowedThisFrame + 1)
    ELSE mowLoop(st, i + 1, position, mowedThisFrame)

\* mow(position, direction): 0 and no effect before initialize()
mow(st, position) ==
    IF ~st.grassMesh
    THEN [grassData |-> st.grassData, mowedGrass |-> st.mowedGrass, returned |-> 0]
    ELSE mowLoop(st, 1, position, 0)

\* a division in JavaScript: 0 / 0 is NaN, n / 0 is Infinity; the quotient
\* is kept as the fraction it is
Divide(a, b) ==
    IF b = 0 THEN [is |-> IF a = 0 THEN "NaN" ELSE "Infinity"]
    ELSE [is |-> "number", num |-> a, den |-> b]

\* getMowedPercentage(): (mowedGrass / totalGrass) * 100, as a fraction
getMowedPercentage(st) ==
    LET q == Divide(st.mowedGrass, st.totalGrass)
    IN  IF q.is = "number" THEN [q EXCEPT !.num = @ * 100] ELSE q

\* lines 200-202: the loop of reset() from blade i on
RECURSIVE resetBladesFrom(_, _)
resetBladesFrom(data, i) ==
    IF i > Len(data) THEN data
    ELSE resetBladesFrom([data EXCEPT ![i].state = 0], i + 1)

\* a reset that drops the blades instead of standing them up
resetDroppingBlades(st) ==
    [st EXCEPT !.grassData = << >>, !.mowedGrass = 0]

\* a reset that stands the blades up and keeps the counter
resetKeepingCount(st) ==
    [st EXCEPT !.grassData = resetBladesFrom(st.grassData, 1)]

\* reset(): every blade to state 0, the counter to 0
reset(st) ==
    [st EXCEPT !.grassData = resetBladesFrom(st.grassData, 1), !.mowedGrass = 0]

\* positions and headings of the mower when mow() is called
MowPositions == { <<0, 0>>, <<16, 0>> }

(***************************************************************************)
(* GameHUD.tsx: the chunked GrassSystem.  chunkSize is the terrain width.  *)
(***************************************************************************)
\* terrain.getSize().width in tenths of a metre
grassChunkSize == width * 10

\* directionFactor = 0.5, in tenths
directionFactor == 5

\* line 332: y > 5 || y < 0.05, in thousandths
tooHighOrLow(y) == y > 5000 \/ y < 50

\* lines 327-329: what Math.random() and terrain.getHeightAt can give one
\* candidate blade, as the offset in its chunk and the elevation there; the
\* last one is under water
ChunkCandidates ==
    { [x |-> 5, y |-> 300, z |-> 0], [x |-> 8, y |-> 300, z |-> 0],
      [x |-> 10, y |-> 40, z |-> 0] }

\* lines 326-352: the loop of generateGrassInChunk from candidate i on
RECURSIVE generateLoop(_, _, _, _, _, _)
generateLoop(data, chunkX, chunkZ, draw, i, instancesInChunk) ==
    IF i > instancesInChunk THEN data
    ELSE IF tooHighOrLow(draw[i].y)
    THEN generateLoop(data, chunkX, chunkZ, draw, i + 1, instancesInChunk)
    ELSE generateLoop(
             Append(data, blade([x |-> chunkX * grassChunkSize + draw[i].x,
                                 y |-> draw[i].y,
                                 z |-> chunkZ * grassChunkSize + draw[i].z])),
             chunkX, chunkZ, draw, i + 1, instancesInChunk)

\* a batch that ignores the room left under the cap
instancesUncapped(length) == grassPerChunk

\* line 323: Math.min(grassPerChunk, grassCount - grassData.length)
instancesInChunk(length) == Min(grassPerChunk, grassCount - length)

\* a generation that starts from an empty list, as generateGrass() of
\* GrassSystem.ts does
generateGrassInChunkAfresh(st, chunkX, chunkZ, draw) ==
    LET data == generateLoop(<< >>, chunkX, chunkZ, draw, 1, instancesInChunk(0))
    IN  [st EXCEPT !.grassData = data, !.totalGrass = Len(data),
                   !.batches = Append(@, <<chunkX, chunkZ>>)]

\* generateGrassInChunk(chunkX, chunkZ)
generateGrassInChunk(st, chunkX, chunkZ, draw) ==
    LET data == generateLoop(st.grassData, chunkX, chunkZ, draw, 1,
                             instancesInChunk(Len(st.grassData)))
    IN  [st EXCEPT !.grassData = data, !.totalGrass = Len(data),
                   !.batches = Append(@, <<chunkX, chunkZ>>)]

\* updateGrassChunks(playerPosition)
updateGrassChunks(st, playerX, playerZ, draw) ==
    LET chunkX == playerX \div grassChunkSize
        chunkZ == playerZ \div grassChunkSize
    IN  IF chunkX # st.grassPlayerChunk.x \/ chunkZ # st.grassPlayerChunk.z
        THEN LET more == IF Len(st.grassData) < grassCount
                         THEN generateGrassInChunk(st, chunkX, chunkZ, draw)
                         ELSE st
             IN  [more EXCEPT !.grassPlayerChunk = [x |-> chunkX, z |-> chunkZ]]
        ELSE st

\* lines 450-464: the blade is no further than mowRadius and the cosine of
\* the angle between the heading and the vector to the blade is below
\* -directionFactor (normalize() leaves a zero vector zero)
reached(grass, position, direction) ==
    LET tx == grass.position.x - position[1]
        tz == grass.position.z - position[2]
        dot == direction[1] * tx + direction[2] * tz
        len2 == (direction[1] * direction[1] + direction[2] * direction[2])
                * (tx * tx + tz * tz)
    IN  /\ ~(tx * tx + tz * tz > mowRadius * mowRadius)
        /\ dot < 0
        /\ 100 * dot * dot > directionFactor * directionFactor * len2

\* lines 444-478: the loop of the directional mow() from blade i on
RECURSIVE chunkedMowLoop(_, _, _, _, _)
chunkedMowLoop(st, i, position, direction, mowedThisFrame) ==
    IF i > Len(st.grassData)
    THEN [grassData |-> st.grassData, mowedGrass |-> st.mowedGrass,
          returned |-> mowedThisFrame]
    ELSE IF st.grassData[i].state = 1
    THEN chunkedMowLoop(st, i + 1, position, direction, mowedThisFrame)
    ELSE IF reached(st.grassData[i], position, direction)
    THEN chunkedMowLoop([st EXCEPT !.grassData[i].state = 1, !.mowedGrass = @ + 1],
                        i + 1, position, direction, mowedThisFrame + 1)
    ELSE chunkedMowLoop(st, i + 1, position, direction, mowedThisFrame)

\* the directional mow(position, direction)
chunkedMow(st, position, direction) ==
    IF ~st.grassMesh
    THEN [grassData |-> st.grassData, mowedGrass |-> st.mowedGrass, returned |-> 0]
    ELSE chunkedMowLoop(st, 1, position, direction, 0)

\* where the mower is when updateGrassChunks and mow are called, and its
\* headings
GrassFocalPositions == { <<0, 0>>, <<grassChunkSize, 0>> }

Headings == { <<-1, 0>>, <<1, 0>> }

(***************************************************************************)
(* WeatherTransition.tsx: SceneryGenerator placing a fixed set of scenery  *)
(* around the origin, and the obstacle list of TerrainGenerator.ts.  An    *)
(* object is [type, mesh, discovered]; a mesh is the number of the         *)
(* THREE.Group in creation order.  Where the objects stand plays no part   *)
(* in which lists they enter.                                              *)
(***************************************************************************)
\* createHouse ... createBench: a new group, pushed on sceneryObjects
create(st, type) ==
    [st EXCEPT !.meshes = @ + 1,
               !.placedObjects = Append(@, [type |-> type, mesh |-> st.meshes + 1,
                                            discovered |-> FALSE])]

\* TerrainGenerator.ts addObstacle(obstacle)
addObstacle(st, obstacle) ==
    [st EXCEPT !.obstacles = Append(@, obstacle)]

\* const o = await this.createX(...); this.terrain.addObstacle(o)
createObstacle(st, type) ==
    LET made == create(st, type)
    IN  addObstacle(made, made.meshes)

\* lines 166-188: the fence posts of one yard
RECURSIVE placeFences(_, _, _)
placeFences(st, j, segments) ==
    IF j >= segments THEN st
    ELSE placeFences(createObstacle(st, "Fence"), j + 1, segments)

\* lines 118-232: property p and the ones after it
RECURSIVE placeProperties(_, _, _)
placeProperties(st, p, draw) ==
    IF p >= draw.propertyCount THEN st
    ELSE LET house == createObstacle(st, "House")
             fenced == placeFences(house, 0, draw.segments[p + 1])
             garden == create(fenced, "Garden")
             shed == IF draw.shed[p + 1] THEN createObstacle(garden, "Shed") ELSE garden
             mailbox == create(shed, "Mailbox")
         IN  placeProperties(mailbox, p + 1, draw)

\* lines 235-248
RECURSIVE placeTrees(_, _)
placeTrees(st, i) ==
    IF i >= treeCount THEN st
    ELSE placeTrees(createObstacle(st, "Tree"), i + 1)

\* lines 251-261
RECURSIVE placeBenches(_, _)
placeBenches(st, i) ==
    IF i >= benchCount THEN st
    ELSE placeBenches(create(st, "Bench"), i + 1)

\* lines 264-271
clearScenery(st) ==
    [st EXCEPT !.placedObjects = << >>]

\* generateScenery(centerPosition)
generateScenery(st, draw) ==
    placeBenches(placeTrees(placeProperties(clearScenery(st), 0, draw), 0), 0)

\* what Math.random() decides of one generateScenery call
SceneryDraws ==
    [propertyCount : 1..MaxProperties,
     segments : [1..MaxProperties -> 1..MaxSegments],
     shed : [1..MaxProperties -> BOOLEAN]]

\* the noise heights, pond radii (3 + Math.random() * 5) and distances from
\* the pond centre, in thousandths, at which the pond falloff is sampled
PondHeights == {0, 150, 400, 1200}

PondRadii == 3..7

PondDistances(r) ==
    {0, 1000 * r - 1, 1000 * r, 1500 * r - 1, 1500 * r, 1500 * r + 1000}

(***************************************************************************)
(* unnamed/part_000: GameManager, which owns a TerrainGenerator            *)
(* (TerrainGenerator.ts), a GrassSystem (GrassSystem.ts), a LawnMower and  *)
(* a SceneryGenerator that registers obstacles (WeatherTransition.tsx).    *)
(* An async method runs synchronously up to its first await and is then    *)
(* suspended; the rest of it runs later, from one await to the next.       *)
(* Positions are whole metres, elevations thousandths of a metre.          *)
(***************************************************************************)
\* no suspended call
NoCall == [pending |-> FALSE]

\* the loop indices from i on whose chunk does not exist
missingFrom(st, keys, i) == {j \in i..Len(keys) : keys[j] \notin DOMAIN st.chunks}

\* updateTerrain from loop index i up to its next await: the next missing
\* chunk is created and the call is suspended at "await this.createChunk";
\* with no chunk missing the loop ends and the chunks out of range are removed
updateTerrainFrom(st, sd, keys, i, draw) ==
    LET missing == missingFrom(st, keys, i)
    IN  IF missing = {}
        THEN [chunks |-> MapKeep(st.chunks, Range(keys)),
              pondLocations |-> st.pondLocations, call |-> NoCall]
        ELSE LET j == CHOOSE j \in missing : \A h \in missing : j <= h
                 made == createChunk(st, sd, keys[j][1], keys[j][2], draw)
             IN  [chunks |-> made.chunks, pondLocations |-> made.pondLocations,
                  call |-> [pending |-> TRUE, keys |-> keys, i |-> j + 1]]

\* the chunk for which Math.random() may yield a pond in a game: the last
\* one initialize() creates
GamePondChunks == { <<2, 2>> }

\* the chunk the next createChunk may draw a pond for
nextPondCandidates(st, keys, i) ==
    LET missing == missingFrom(st, keys, i)
    IN  IF missing = {} THEN {}
        ELSE ({keys[CHOOSE j \in missing : \A h \in missing : j <= h]} \cap GamePondChunks)
                 \ DOMAIN st.pondLocations

\* what Math.random() can give the next createChunk
StepDraws(st, keys, i) ==
    Draws(nextPondCandidates(st, keys, i),
          MaxPonds - pondCount(st.pondLocations, DOMAIN st.pondLocations))

\* this.terrain.getHeightAt(x, z) at a whole-metre position
heightAt(st, sd, x, z) ==
    getHeightAt(st.chunks, st.pondLocations, sd, Whole(x), Whole(z)).result.height

\* one getHeightAt call of a consumer: the chunk asked for, whether it
\* exists, and the focal chunk of the latest updateTerrain call
heightQuery(by, st, focal, x, z) ==
    [by |-> by, key |-> <<playerChunk(x), playerChunk(z)>>,
     created |-> <<playerChunk(x), playerChunk(z)>> \in DOMAIN st.chunks,
     focal |-> focal]

\* TerrainGenerator.ts lines 407-411: (size.x + size.z) / 4 of the bounding
\* box of the unrotated group, in thousandths: the roof of a house of width
\* 4 and depth 5, the rail of a fence, the roof of a shed, the canopy of a
\* tree
obstacleRadius(type) ==
    CASE type = "House" -> 2487
      [] type = "Fence" -> 525
      [] type = "Shed" -> 1555
      [] OTHER -> 1200

\* lines 413-417: position.distanceTo(obstaclePos) < radius + obstacleRadius
collides(obstacle, position, radius) ==
    LET dx == obstacle.x - position.x
        dy == obstacle.y - position.y
        dz == obstacle.z - position.z
        reach == radius + obstacleRadius(obstacle.type)
    IN  /\ dx * dx + dz * dz < 25
        /\ Abs(dy) < 5000
        /\ (dx * dx + dz * dz) * 1000000 + dy * dy < reach * reach

\* checkCollision(position, radius), radius in thousandths
checkCollision(obs, position, radius) ==
    \E k \in DOMAIN obs : collides(obs[k], position, radius)

\* positions Math.random() can give a blade: radius * (cos, sin)(theta)
\* with radius up to initialRadius = 60
LawnPoints == { <<0, 0>>, <<20, 0>> }

\* GrassSystem.ts lines 81-102: a blade at p, in tenths of a metre, with
\* y = getHeightAt(x, z); positions that collide are drawn again
lawnCandidates(st, sd, obs) ==
    { c \in { [x |-> 10 * p[1], y |-> heightAt(st, sd, p[1], p[2]), z |-> 10 * p[2]] :
               p \in LawnPoints } :
        ~checkCollision(obs, [x |-> c.x \div 10, y |-> c.y, z |-> c.z \div 10], 1000) }

\* the outcomes of Math.random() in generateGrass: grassCount positions,
\* here in the order of their x
LawnDraws(candidates) ==
    {gd \in [1..lawnGrassCount -> candidates] :
        \A i \in 1..(lawnGrassCount - 1) : gd[i].x <= gd[i + 1].x}

\* what Math.random() decides of the generateScenery call of one game: one
\* property with one fence post and no shed, and where the first tree
\* stands (10 to 160 from the origin)
TreePoints == { <<21, 0>>, <<0, -100>> }

GameSceneryDraws ==
    [scenery : {d \in SceneryDraws :
                   /\ d.propertyCount = 1
                   /\ \A p \in 1..MaxProperties : d.segments[p] = 1
                   /\ \A p \in 1..MaxProperties : ~d.shed[p]},
     tree : TreePoints]

\* the objects generateScenery creates, in order: type, whether the object
\* is handed to addObstacle, and where it stands
sceneryPlan(draw) ==
    LET made == generateScenery([placedObjects |-> << >>, obstacles |-> << >>, meshes |-> 0],
                                draw.scenery)
        type(k) == made.placedObjects[k].type
        point(k) ==
            CASE type(k) = "House" -> <<30, 0>>
              [] type(k) = "Fence" -> <<24, -6>>
              [] type(k) = "Garden" -> <<31, 1>>
              [] type(k) = "Shed" -> <<28, 2>>
              [] type(k) = "Mailbox" -> <<30, -6>>
              [] type(k) = "Tree" -> IF \A h \in 1..(k - 1) : type(h) # "Tree"
                                     THEN draw.tree ELSE <<-40, 0>>
              [] OTHER -> <<15, 0>>
    IN  [k \in DOMAIN made.placedObjects |->
            [type |-> type(k), obstacle |-> k \in Range(made.obstacles),
             x |-> point(k)[1], z |-> point(k)[2]]]

\* const y = this.terrain.getHeightAt(x, z); await this.createX(x, y, z):
\* the group is created at (x, y, z) and pushed on sceneryObjects
createAt(st, sd, terrain, item) ==
    [st EXCEPT !.meshes = @ + 1,
               !.placedObjects = Append(@, [type |-> item.type, mesh |-> st.meshes + 1,
                                            discovered |-> FALSE, x |-> item.x,
                                            y |-> heightAt(terrain, sd, item.x, item.z),
                                            z |-> item.z])]

\* this.terrain.addObstacle(o), after the await of the k-th createX
registered(st, plan, k) ==
    IF plan[k].obstacle
    THEN addObstacle(st, st.placedObjects[Len(st.placedObjects)])
    ELSE st

\* generateScenery from its start to its first await
generateSceneryStart(st, sd, terrain, plan) ==
    [placer |-> createAt(clearScenery(st), sd, terrain, plan[1]),
     call |-> [pending |-> TRUE, plan |-> plan, k |-> 1]]

\* generateScenery from the await of the k-th object to the next await, or
\* to its end
generateSceneryFrom(st, sd, terrain, plan, k) ==
    IF k = Len(plan)
    THEN [placer |-> registered(st, plan, k), call |-> NoCall]
    ELSE [placer |-> createAt(registered(st, plan, k), sd, terrain, plan[k + 1]),
          call |-> [pending |-> TRUE, plan |-> plan, k |-> k + 1]]

\* an update that mows whatever the switch says
mowRegardless(running, grass, position, area) ==
    LET r == mow(grass, position)
    IN  [grassData |-> r.grassData, mowedGrass |-> r.mowedGrass, returned |-> r.returned,
         totalAreaMowed |-> area + r.returned]

\* part_000 lines 500-511: if (this.mowerRunning) { mowedThisFrame = mow(...);
\* if (mowedThisFrame > 0) this.totalAreaMowed += mowedThisFrame }
mowIfRunning(running, grass, position, area) ==
    IF running
    THEN LET r == mow(grass, position)
         IN  [grassData |-> r.grassData, mowedGrass |-> r.mowedGrass,
              returned |-> r.returned,
              totalAreaMowed |-> IF r.returned > 0 THEN area + r.returned ELSE area]
    ELSE [grassData |-> grass.grassData, mowedGrass |-> grass.mowedGrass, returned |-> 0,
          totalAreaMowed |-> area]

\* where playerControls.update(delta) has driven the mower when a tick runs
MowerPositions == { <<0, 0>>, <<20, 0>> }

Variants == {"updateTerrain", "visibleChunks", "scenery", "grass", "chunkedGrass",
             "generateScenery", "calculateHeightAt", "gameManager"}

NoResult == [fn |-> "none"]

Init ==
    /\ variant \in Variants
    /\ op = "new"
    /\ playerPosition = <<0, 0>>
    /\ chunks = EmptyMap
    /\ pondLocations = EmptyMap
    /\ seed \in (IF variant \in {"updateTerrain", "gameManager"} THEN Seeds ELSE {0})
    /\ terrainChunks = {}
    /\ heightMaps = EmptyMap
    /\ currentChunkX = 0
    /\ currentChunkZ = 0
    /\ sceneryChunks = EmptyMap
    /\ sceneryObjects = << >>
    /\ generations = << >>
    /\ discoveries = << >>
    /\ currentPlayerChunk = [x |-> 0, z |-> 0]
    /\ scenerySeed \in (IF variant = "scenery" THEN Seeds ELSE {0})
    /\ grassMesh = FALSE
    /\ grassData = << >>
    /\ totalGrass = (IF variant \in {"grass", "gameManager"} THEN lawnGrassCount
                     ELSE IF variant = "chunkedGrass" THEN grassCount ELSE 0)
    /\ mowedGrass = 0
    /\ grassPlayerChunk = [x |-> 0, z |-> 0]
    /\ mowPositions = {}
    /\ batches = << >>
    /\ placedObjects = << >>
    /\ obstacles = << >>
    /\ meshes = 0
    /\ isRunning = FALSE
    /\ gameStarted = FALSE
    /\ mowerRunning = FALSE
    /\ totalAreaMowed = 0
    /\ terrainCall = NoCall
    /\ sceneryCall = NoCall
    /\ heightQueries = {}
    /\ result = NoResult

TerrainState == [chunks |-> chunks, pondLocations |-> pondLocations]

NoTerrain == [chunks |-> EmptyMap, pondLocations |-> EmptyMap]

\* TerrainGenerator.initialize(): updateTerrain at the origin
Initialize ==
    /\ variant = "updateTerrain"
    /\ op = "new"
    /\ \E draw \in Draws(pondCandidates(TerrainState, 0, 0),
                         MaxPonds - pondCount(pondLocations, DOMAIN pondLocations)) :
          LET st == updateTerrain(TerrainState, seed, 0, 0, draw)
          IN  /\ chunks' = st.chunks
              /\ pondLocations' = st.pondLocations
    /\ op' = "initialize"
    /\ playerPosition' = <<0, 0>>
    /\ result' = NoResult
    /\ UNCHANGED <<variant, gameVars, seed, streamVars, sceneryVars, placerVars, grassVars>>

\* TerrainGenerator.updateTerrain(playerPosition), called once per tick
UpdateTerrain ==
    /\ variant = "updateTerrain"
    /\ op # "new"
    /\ \E p \in FocalPositions :
       \E draw \in Draws(pondCandidates(TerrainState, p[1], p[2]),
                         MaxPonds - pondCount(pondLocations, DOMAIN pondLocations)) :
          LET st == updateTerrain(TerrainState, seed, p[1], p[2], draw)
          IN  /\ chunks' = st.chunks
              /\ pondLocations' = st.pondLocations
              /\ playerPosition' = p
              /\ op' = "updateTerrain"
              /\ result' = NoResult
    /\ UNCHANGED <<variant, gameVars, seed, streamVars, sceneryVars, placerVars, grassVars>>

\* TerrainGenerator.getHeightAt(x, z), called by the mower, the grass and
\* the scenery
GetHeightAt ==
    /\ variant = "updateTerrain"
    /\ op # "new"
    /\ \E q \in QueryPoints :
          LET r == getHeightAt(chunks, pondLocations, seed, q[1], q[2])
          IN  /\ chunks' = r.chunks
              /\ pondLocations' = r.pondLocations
              /\ result' = r.result
    /\ op' = "getHeightAt"
    /\ UNCHANGED <<variant, gameVars, playerPosition, seed, streamVars, sceneryVars, placerVars, grassVars>>

\* TerrainGenerator.reset(): everything cleared, a new seed, initialize()
Reset ==
    /\ variant = "updateTerrain"
    /\ op # "new"
    /\ \E sd \in Seeds :
       \E draw \in Draws(pondCandidates(NoTerrain, 0, 0), MaxPonds) :
          LET st == updateTerrain(NoTerrain, sd, 0, 0, draw)
          IN  /\ seed' = sd
              /\ chunks' = st.chunks
              /\ pondLocations' = st.pondLocations
    /\ op' = "reset"
    /\ playerPosition' = <<0, 0>>
    /\ result' = NoResult
    /\ UNCHANGED <<variant, gameVars, streamVars, sceneryVars, placerVars, grassVars>>

StreamState ==
    [terrainChunks |-> terrainChunks, heightMaps |-> heightMaps,
     currentChunkX |-> currentChunkX, currentChunkZ |-> currentChunkZ]

SetStream(st) ==
    /\ terrainChunks' = st.terrainChunks
    /\ heightMaps' = st.heightMaps
    /\ currentChunkX' = st.currentChunkX
    /\ currentChunkZ' = st.currentChunkZ

\* part_002 initialize(): updateVisibleChunks(0, 0)
StreamInitialize ==
    /\ variant = "visibleChunks"
    /\ op = "new"
    /\ SetStream(updateVisibleChunks(StreamState, 0, 0))
    /\ op' = "initialize"
    /\ playerPosition' = <<0, 0>>
    /\ result' = NoResult
    /\ UNCHANGED <<variant, gameVars, terrainVars, sceneryVars, placerVars, grassVars>>

\* part_002 updateVisibleChunks(playerX, playerZ), called once per tick
UpdateVisibleChunks ==
    /\ variant = "visibleChunks"
    /\ op # "new"
    /\ \E p \in StreamFocalPositions :
          /\ SetStream(updateVisibleChunks(StreamState, p[1], p[2]))
          /\ playerPosition' = p
    /\ op' = "updateVisibleChunks"
    /\ result' = NoResult
    /\ UNCHANGED <<variant, gameVars, terrainVars, sceneryVars, placerVars, grassVars>>

\* part_002 getHeightAt(x, z)
StreamGetHeightAt ==
    /\ variant = "visibleChunks"
    /\ op # "new"
    /\ \E q \in StreamQueryPoints :
          LET r == streamGetHeightAt(heightMaps, q[1], q[2])
          IN  /\ heightMaps' = r.heightMaps
              /\ result' = r.result
    /\ op' = "getHeightAt"
    /\ UNCHANGED <<variant, gameVars, playerPosition, terrainVars, sceneryVars, placerVars, grassVars,
                   terrainChunks, currentChunkX, currentChunkZ>>

\* part_002 reset(): everything cleared, the focal chunk back to (0, 0),
\* then initialize()
StreamReset ==
    /\ variant = "visibleChunks"
    /\ op # "new"
    /\ SetStream(updateVisibleChunks([terrainChunks |-> {}, heightMaps |-> EmptyMap,
                                      currentChunkX |-> 0, currentChunkZ |-> 0], 0, 0))
    /\ playerPosition' = <<0, 0>>
    /\ op' = "reset"
    /\ result' = NoResult
    /\ UNCHANGED <<variant, gameVars, terrainVars, sceneryVars, placerVars, grassVars>>

NextStream == StreamInitialize \/ UpdateVisibleChunks \/ StreamGetHeightAt \/ StreamReset

NextTerrain == Initialize \/ UpdateTerrain \/ GetHeightAt \/ Reset

SceneryState ==
    [sceneryChunks |-> sceneryChunks, sceneryObjects |-> sceneryObjects,
     currentPlayerChunk |-> currentPlayerChunk, generations |-> generations,
     discoveries |-> discoveries]

SetScenery(st) ==
    /\ sceneryChunks' = st.sceneryChunks
    /\ sceneryObjects' = st.sceneryObjects
    /\ generations' = st.generations
    /\ discoveries' = st.discoveries
    /\ currentPlayerChunk' = st.currentPlayerChunk

\* part_005 initialize(): generateSceneryInArea(0, 0, loadDistance)
SceneryInitialize ==
    /\ variant = "scenery"
    /\ op = "new"
    /\ SetScenery(generateSceneryInArea(SceneryState, scenerySeed,
                                        squareKeys(0, 0, sceneryLoadDistance), 1))
    /\ op' = "initialize"
    /\ UNCHANGED <<variant, gameVars, playerPosition, terrainVars, streamVars, grassVars, placerVars, scenerySeed, result>>

\* part_005 updateSceneryChunks(playerPosition)
UpdateSceneryChunks ==
    /\ variant = "scenery"
    /\ op # "new"
    /\ Len(sceneryObjects) < MaxObjects
    /\ \E p \in StreamFocalPositions :
          /\ SetScenery(updateSceneryChunks(SceneryState, scenerySeed, p[1], p[2]))
          /\ playerPosition' = p
    /\ op' = "updateSceneryChunks"
    /\ UNCHANGED <<variant, gameVars, terrainVars, streamVars, grassVars, placerVars, scenerySeed, result>>

\* part_005 checkForDiscovery(playerPosition)
CheckForDiscovery ==
    /\ variant = "scenery"
    /\ op # "new"
    /\ \E p \in DiscoveryPositions(scenerySeed) :
          /\ SetScenery(checkForDiscovery(SceneryState, p))
          /\ result' = [fn |-> "checkForDiscovery", position |-> p]
    /\ op' = "checkForDiscovery"
    /\ UNCHANGED <<variant, gameVars, playerPosition, terrainVars, streamVars, grassVars, placerVars,
                   scenerySeed>>

NextScenery == SceneryInitialize \/ UpdateSceneryChunks \/ CheckForDiscovery

GrassState ==
    [grassMesh |-> grassMesh, grassData |-> grassData, totalGrass |-> totalGrass,
     mowedGrass |-> mowedGrass, grassPlayerChunk |-> grassPlayerChunk,
     batches |-> batches]

SetGrass(st) ==
    /\ grassMesh' = st.grassMesh
    /\ grassData' = st.grassData
    /\ totalGrass' = st.totalGrass
    /\ mowedGrass' = st.mowedGrass
    /\ grassPlayerChunk' = st.grassPlayerChunk
    /\ batches' = st.batches

\* GrassSystem.ts initialize(): the mesh, then generateGrass()
GrassInitialize ==
    /\ variant = "grass"
    /\ op = "new"
    /\ \E draw \in [1..lawnGrassCount -> LawnCandidates] :
          SetGrass(generateGrass([GrassState EXCEPT !.grassMesh = TRUE], draw))
    /\ mowPositions' = {}
    /\ op' = "initialize"
    /\ result' = NoResult
    /\ UNCHANGED <<variant, gameVars, playerPosition, terrainVars, streamVars, sceneryVars, placerVars>>

\* GrassSystem.ts mow(position, direction), called by GameManager.update
Mow ==
    /\ variant = "grass"
    /\ \E p \in MowPositions :
          LET r == mow(GrassState, p)
          IN  /\ grassData' = r.grassData
              /\ mowedGrass' = r.mowedGrass
              /\ result' = [fn |-> "mow", position |-> p, returned |-> r.returned]
              /\ mowPositions' = mowPositions \cup {p}
    /\ op' = "mow"
    /\ UNCHANGED <<variant, gameVars, playerPosition, terrainVars, streamVars, sceneryVars, placerVars,
                   grassMesh, totalGrass, grassPlayerChunk, batches>>

\* GrassSystem.ts update(delta): the wind clock only
GrassUpdate ==
    /\ variant = "grass"
    /\ op # "update"
    /\ op' = "update"
    /\ result' = NoResult
    /\ UNCHANGED <<variant, gameVars, playerPosition, terrainVars, streamVars, sceneryVars, placerVars, grassVars>>

\* GrassSystem.ts reset(), called by GameManager.resetGame
GrassReset ==
    /\ variant = "grass"
    /\ op # "new"
    /\ SetGrass(reset(GrassState))
    /\ mowPositions' = {}
    /\ op' = "reset"
    /\ result' = NoResult
    /\ UNCHANGED <<variant, gameVars, playerPosition, terrainVars, streamVars, sceneryVars, placerVars>>

\* GrassSystem.ts getMowedPercentage()
GetMowedPercentage ==
    /\ variant = "grass"
    /\ op # "getMowedPercentage"
    /\ result' = [fn |-> "getMowedPercentage", value |-> getMowedPercentage(GrassState)]
    /\ op' = "getMowedPercentage"
    /\ UNCHANGED <<variant, gameVars, playerPosition, terrainVars, streamVars, sceneryVars, placerVars, grassVars>>

NextGrass == GrassInitialize \/ Mow \/ GrassUpdate \/ GrassReset \/ GetMowedPercentage

\* GameHUD.tsx initialize(): the mesh, then generateGrassInChunk(0, 0)
ChunkedInitialize ==
    /\ variant = "chunkedGrass"
    /\ op = "new"
    /\ \E draw \in [1..grassPerChunk -> ChunkCandidates] :
          SetGrass(generateGrassInChunk([GrassState EXCEPT !.grassMesh = TRUE], 0, 0, draw))
    /\ op' = "initialize"
    /\ result' = NoResult
    /\ UNCHANGED <<variant, gameVars, playerPosition, terrainVars, streamVars, sceneryVars, placerVars, mowPositions>>

\* GameHUD.tsx updateGrassChunks(playerPosition)
UpdateGrassChunks ==
    /\ variant = "chunkedGrass"
    /\ op # "new"
    /\ Len(batches) < MaxBatches
    /\ \E p \in GrassFocalPositions :
       \E draw \in [1..grassPerChunk -> ChunkCandidates] :
          /\ SetGrass(updateGrassChunks(GrassState, p[1], p[2], draw))
          /\ playerPosition' = p
    /\ op' = "updateGrassChunks"
    /\ result' = NoResult
    /\ UNCHANGED <<variant, gameVars, terrainVars, streamVars, sceneryVars, placerVars, mowPositions>>

\* GameHUD.tsx mow(position, direction)
ChunkedMow ==
    /\ variant = "chunkedGrass"
    /\ \E p \in GrassFocalPositions :
       \E d \in Headings :
          LET r == chunkedMow(GrassState, p, d)
          IN  /\ grassData' = r.grassData
              /\ mowedGrass' = r.mowedGrass
              /\ result' = [fn |-> "mow", position |-> p, direction |-> d,
                            returned |-> r.returned]
    /\ op' = "mow"
    /\ UNCHANGED <<variant, gameVars, playerPosition, terrainVars, streamVars, sceneryVars, placerVars,
                   grassMesh, totalGrass, grassPlayerChunk, batches, mowPositions>>

\* GameHUD.tsx update(delta): the wind clock and the sun only
ChunkedUpdate ==
    /\ variant = "chunkedGrass"
    /\ op # "update"
    /\ op' = "update"
    /\ result' = NoResult
    /\ UNCHANGED <<variant, gameVars, playerPosition, terrainVars, streamVars, sceneryVars, placerVars, grassVars>>

\* GameHUD.tsx reset(): states and colours, the counter
ChunkedReset ==
    /\ variant = "chunkedGrass"
    /\ op # "new"
    /\ SetGrass(reset(GrassState))
    /\ op' = "reset"
    /\ result' = NoResult
    /\ UNCHANGED <<variant, gameVars, playerPosition, terrainVars, streamVars, sceneryVars, placerVars, mowPositions>>

\* GameHUD.tsx getMowedPercentage()
ChunkedGetMowedPercentage ==
    /\ variant = "chunkedGrass"
    /\ op # "getMowedPercentage"
    /\ result' = [fn |-> "getMowedPercentage", value |-> getMowedPercentage(GrassState)]
    /\ op' = "getMowedPercentage"
    /\ UNCHANGED <<variant, gameVars, playerPosition, terrainVars, streamVars, sceneryVars, placerVars, grassVars>>

NextChunkedGrass ==
    \/ ChunkedInitialize \/ UpdateGrassChunks \/ ChunkedMow
    \/ ChunkedUpdate \/ ChunkedReset \/ ChunkedGetMowedPercentage

PlacerState ==
    [placedObjects |-> placedObjects, obstacles |-> obstacles, meshes |-> meshes]

SetPlacer(st) ==
    /\ placedObjects' = st.placedObjects
    /\ obstacles' = st.obstacles
    /\ meshes' = st.meshes

\* WeatherTransition.tsx initialize(): generateScenery at the origin
PlacerInitialize ==
    /\ variant = "generateScenery"
    /\ op = "new"
    /\ \E draw \in SceneryDraws : SetPlacer(generateScenery(PlacerState, draw))
    /\ op' = "initialize"
    /\ UNCHANGED <<variant, gameVars, playerPosition, terrainVars, streamVars, sceneryVars, grassVars, result>>

\* WeatherTransition.tsx reset(): clearScenery(), generateScenery()
PlacerReset ==
    /\ variant = "generateScenery"
    /\ op # "new"
    /\ meshes < MaxMeshes
    /\ \E draw \in SceneryDraws :
          SetPlacer(generateScenery(clearScenery(PlacerState), draw))
    /\ op' = "reset"
    /\ UNCHANGED <<variant, gameVars, playerPosition, terrainVars, streamVars, sceneryVars, grassVars, result>>

\* TerrainGenerator.ts reset(), lines 441-445: the obstacle list is emptied
PlacerTerrainReset ==
    /\ variant = "generateScenery"
    /\ op # "new"
    /\ obstacles' = << >>
    /\ op' = "terrainReset"
    /\ UNCHANGED <<variant, gameVars, playerPosition, terrainVars, streamVars, sceneryVars, grassVars,
                   placedObjects, meshes, result>>

NextPlacer == PlacerInitialize \/ PlacerReset \/ PlacerTerrainReset

\* TerrainGenerator.ts calculateHeightAt at a point `distance` from the
\* centre of the one pond of its chunk
CalculateHeightAt ==
    /\ variant = "calculateHeightAt"
    /\ \E h \in PondHeights : \E r \in PondRadii : \E d \in PondDistances(r) :
          result' = [fn |-> "calculateHeightAt", height |-> h, radius |-> r,
                     distance |-> d, value |-> pondFalloff(h, d, r)]
    /\ op' = "calculateHeightAt"
    /\ UNCHANGED <<variant, gameVars, playerPosition, terrainVars, streamVars, sceneryVars, grassVars,
                   placerVars>>

NextFalloff == CalculateHeightAt

(***************************************************************************)
(* unnamed/part_000: the operations of GameManager.  The state "new" is    *)
(* the constructor just before its call of preloadAssets().  A public      *)
(* method or a tick runs when no continuation of an async call is left     *)
(* to run; the continuations of different calls run in any order.          *)
(***************************************************************************)
\* the fields of classes this GameManager does not own
GameFrame ==
    UNCHANGED <<variant, streamVars, sceneryChunks, sceneryObjects, currentPlayerChunk,
                scenerySeed, generations, grassPlayerChunk, batches>>

\* no async call is suspended
Drained == ~terrainCall.pending /\ ~sceneryCall.pending

\* the focal chunk of the latest updateTerrain call
focalChunk == <<playerChunk(playerPosition[1]), playerChunk(playerPosition[2])>>

\* preloadAssets(): terrain.initialize(), grassSystem.initialize() and
\* sceneryGenerator.initialize() are called in this order, each running up
\* to its first await
PreloadAssets ==
    /\ variant = "gameManager"
    /\ op = "new"
    /\ \E pd \in StepDraws(TerrainState, visibleKeys(0, 0), 1) :
       \E sdraw \in GameSceneryDraws :
          LET t == updateTerrainFrom(TerrainState, seed, visibleKeys(0, 0), 1, pd)
              plan == sceneryPlan(sdraw)
              s == generateSceneryStart(PlacerState, seed, t, plan)
          IN  /\ chunks' = t.chunks
              /\ pondLocations' = t.pondLocations
              /\ terrainCall' = t.call
              /\ \E gd \in LawnDraws(lawnCandidates(t, seed, obstacles)) :
                    LET g == generateGrass([GrassState EXCEPT !.grassMesh = TRUE], gd)
                    IN  /\ grassMesh' = g.grassMesh
                        /\ grassData' = g.grassData
                        /\ totalGrass' = g.totalGrass
                        /\ mowedGrass' = g.mowedGrass
                        /\ heightQueries' =
                              { heightQuery("generateGrass", t, <<0, 0>>,
                                                 gd[i].x \div 10, gd[i].z \div 10) :
                                     i \in DOMAIN gd }
                              \cup { heightQuery("generateScenery", t, <<0, 0>>,
                                                 plan[1].x, plan[1].z) }
              /\ SetPlacer(s.placer)
              /\ sceneryCall' = s.call
    /\ mowPositions' = {}
    /\ playerPosition' = <<0, 0>>
    /\ op' = "preloadAssets"
    /\ result' = NoResult
    /\ UNCHANGED <<seed, discoveries, isRunning, gameStarted, mowerRunning, totalAreaMowed>>
    /\ GameFrame

\* the suspended updateTerrain call runs on to its next await or to its end
UpdateTerrainContinue ==
    /\ variant = "gameManager"
    /\ terrainCall.pending
    /\ \E pd \in StepDraws(TerrainState, terrainCall.keys, terrainCall.i) :
          LET t == updateTerrainFrom(TerrainState, seed, terrainCall.keys, terrainCall.i, pd)
          IN  /\ chunks' = t.chunks
              /\ pondLocations' = t.pondLocations
              /\ terrainCall' = t.call
    /\ op' = "updateTerrain"
    /\ result' = NoResult
    /\ heightQueries' = {}
    /\ UNCHANGED <<playerPosition, seed, grassVars, placerVars, discoveries, isRunning,
                   gameStarted, mowerRunning, totalAreaMowed, sceneryCall>>
    /\ GameFrame

\* the suspended generateScenery call runs on to its next await or to its end
GenerateSceneryContinue ==
    /\ variant = "gameManager"
    /\ sceneryCall.pending
    /\ LET plan == sceneryCall.plan
           k == sceneryCall.k
           s == generateSceneryFrom(PlacerState, seed, TerrainState, plan, k)
       IN  /\ SetPlacer(s.placer)
           /\ sceneryCall' = s.call
           /\ heightQueries' =
                 IF k < Len(plan)
                 THEN { heightQuery("generateScenery", TerrainState, focalChunk,
                                    plan[k + 1].x, plan[k + 1].z) }
                 ELSE {}
    /\ op' = "generateScenery"
    /\ result' = NoResult
    /\ UNCHANGED <<playerPosition, terrainVars, grassVars, discoveries, isRunning,
                   gameStarted, mowerRunning, totalAreaMowed, terrainCall>>
    /\ GameFrame

\* startGame()
StartGame ==
    /\ variant = "gameManager"
    /\ op # "new"
    /\ Drained
    /\ gameStarted' = TRUE
    /\ isRunning' = TRUE
    /\ mowerRunning' = TRUE
    /\ op' = "startGame"
    /\ result' = NoResult
    /\ UNCHANGED <<playerPosition, terrainVars, grassVars, placerVars, discoveries,
                   totalAreaMowed, terrainCall, sceneryCall>>
    /\ heightQueries' = {}
    /\ GameFrame

\* pauseGame()
PauseGame ==
    /\ variant = "gameManager"
    /\ op # "new"
    /\ Drained
    /\ isRunning' = FALSE
    /\ op' = "pauseGame"
    /\ result' = NoResult
    /\ UNCHANGED <<playerPosition, terrainVars, grassVars, placerVars, discoveries,
                   gameStarted, mowerRunning, totalAreaMowed, terrainCall, sceneryCall>>
    /\ heightQueries' = {}
    /\ GameFrame

\* resumeGame()
ResumeGame ==
    /\ variant = "gameManager"
    /\ op # "new"
    /\ Drained
    /\ isRunning' = TRUE
    /\ op' = "resumeGame"
    /\ result' = NoResult
    /\ UNCHANGED <<playerPosition, terrainVars, grassVars, placerVars, discoveries,
                   gameStarted, mowerRunning, totalAreaMowed, terrainCall, sceneryCall>>
    /\ heightQueries' = {}
    /\ GameFrame

\* toggleMower()
ToggleMower ==
    /\ variant = "gameManager"
    /\ op # "new"
    /\ Drained
    /\ mowerRunning' = ~mowerRunning
    /\ op' = "toggleMower"
    /\ result' = NoResult
    /\ UNCHANGED <<playerPosition, terrainVars, grassVars, placerVars, discoveries,
                   isRunning, gameStarted, totalAreaMowed, terrainCall, sceneryCall>>
    /\ heightQueries' = {}
    /\ GameFrame

\* update(): one tick.  playerControls.update moves the mower, which reads
\* the ground height; updateTerrain is called and not awaited; the grass is
\* mown if the mower runs; the scenery nearby is discovered
GameUpdate ==
    /\ variant = "gameManager"
    /\ op # "new"
    /\ Drained
    /\ IF ~isRunning \/ ~gameStarted
       THEN /\ result' = [fn |-> "update", ran |-> FALSE]
            /\ heightQueries' = {}
            /\ UNCHANGED <<playerPosition, terrainVars, grassVars, placerVars, discoveries,
                           totalAreaMowed, terrainCall>>
       ELSE \E p \in MowerPositions :
            \E pd \in StepDraws(TerrainState, visibleKeys(playerChunk(p[1]), playerChunk(p[2])), 1) :
               LET y == heightAt(TerrainState, seed, p[1], p[2])
                   position == [x |-> p[1], y |-> y, z |-> p[2]]
                   t == updateTerrainFrom(TerrainState, seed,
                                          visibleKeys(playerChunk(p[1]), playerChunk(p[2])),
                                          1, pd)
                   m == mowIfRunning(mowerRunning, GrassState, <<10 * p[1], 10 * p[2]>>,
                                     totalAreaMowed)
                   d == checkForDiscovery([sceneryObjects |-> placedObjects,
                                           discoveries |-> discoveries], position)
               IN  /\ heightQueries' =
                         { heightQuery("lawnMower", TerrainState, focalChunk, p[1], p[2]) }
                   /\ playerPosition' = p
                   /\ chunks' = t.chunks
                   /\ pondLocations' = t.pondLocations
                   /\ terrainCall' = t.call
                   /\ grassData' = m.grassData
                   /\ mowedGrass' = m.mowedGrass
                   /\ totalAreaMowed' = m.totalAreaMowed
                   /\ mowPositions' = IF mowerRunning
                                      THEN mowPositions \cup { <<10 * p[1], 10 * p[2]>> }
                                      ELSE mowPositions
                   /\ placedObjects' = d.sceneryObjects
                   /\ discoveries' = d.discoveries
                   /\ result' = [fn |-> "update", ran |-> TRUE, position |-> p,
                                 collided |-> checkCollision(obstacles, position, 600),
                                 returned |-> m.returned]
                   /\ UNCHANGED <<seed, grassMesh, totalGrass, obstacles, meshes>>
    /\ op' = "update"
    /\ UNCHANGED <<isRunning, gameStarted, mowerRunning, sceneryCall>>
    /\ GameFrame

\* resetGame(): the flags and the area, then terrain.reset() (a new seed,
\* no chunks, no ponds, no obstacles, initialize() not awaited),
\* grassSystem.reset(), lawnMower.reset() and sceneryGenerator.reset()
\* (generateScenery() not awaited)
ResetGame ==
    /\ variant = "gameManager"
    /\ op # "new"
    /\ Drained
    /\ \E sd \in Seeds :
       \E pd \in StepDraws(NoTerrain, visibleKeys(0, 0), 1) :
       \E sdraw \in GameSceneryDraws :
          LET t == updateTerrainFrom(NoTerrain, sd, visibleKeys(0, 0), 1, pd)
              plan == sceneryPlan(sdraw)
              s == generateSceneryStart([PlacerState EXCEPT !.obstacles = << >>], sd, t, plan)
              g == reset(GrassState)
          IN  /\ meshes + Len(plan) <= MaxMeshes
              /\ seed' = sd
              /\ chunks' = t.chunks
              /\ pondLocations' = t.pondLocations
              /\ terrainCall' = t.call
              /\ grassData' = g.grassData
              /\ mowedGrass' = g.mowedGrass
              /\ SetPlacer(s.placer)
              /\ sceneryCall' = s.call
              /\ heightQueries' =
                    { heightQuery("generateScenery", t, <<0, 0>>, plan[1].x, plan[1].z) }
    /\ isRunning' = FALSE
    /\ gameStarted' = FALSE
    /\ mowerRunning' = FALSE
    /\ totalAreaMowed' = 0
    /\ mowPositions' = {}
    /\ playerPosition' = <<0, 0>>
    /\ op' = "resetGame"
    /\ result' = NoResult
    /\ UNCHANGED <<grassMesh, totalGrass, discoveries>>
    /\ GameFrame

NextGame ==
    \/ PreloadAssets \/ UpdateTerrainContinue \/ GenerateSceneryContinue
    \/ StartGame \/ PauseGame \/ ResumeGame \/ ToggleMower \/ GameUpdate \/ ResetGame

Next ==
    \/ NextTerrain \/ NextStream \/ NextScenery \/ NextGrass \/ NextChunkedGrass
    \/ NextPlacer \/ NextFalloff \/ NextGame

Spec == Init /\ [][Next]_vars

\* one generator, or two, constructed
InitTerrain == Init /\ variant = "updateTerrain"

InitStream == Init /\ variant = "visibleChunks"

InitScenery == Init /\ variant = "scenery"

InitGenerators == Init /\ variant \in {"updateTerrain", "visibleChunks"}

InitStreamers == Init /\ variant \in {"visibleChunks", "scenery"}

InitGrass == Init /\ variant = "grass"

InitChunkedGrass == Init /\ variant = "chunkedGrass"

InitGrassSystems == Init /\ variant \in {"grass", "chunkedGrass"}

InitPlacer == Init /\ variant = "generateScenery"

InitFalloff == Init /\ variant = "calculateHeightAt"

InitGame == Init /\ variant = "gameManager"

NextGenerators == NextTerrain \/ NextStream

NextGrassSystems == NextGrass \/ NextChunkedGrass

NextStreamers == NextStream \/ NextScenery

SpecTerrain == InitTerrain /\ [][NextTerrain]_vars

SpecStream == InitStream /\ [][NextStream]_vars

SpecScenery == InitScenery /\ [][NextScenery]_vars

SpecGrass == InitGrass /\ [][NextGrass]_vars

SpecChunkedGrass == InitChunkedGrass /\ [][NextChunkedGrass]_vars

SpecGrassSystems == InitGrassSystems /\ [][NextGrassSystems]_vars

SpecPlacer == InitPlacer /\ [][NextPlacer]_vars

SpecFalloff == InitFalloff /\ [][NextFalloff]_vars

SpecGame == InitGame /\ [][NextGame]_vars

SpecGenerators == InitGenerators /\ [][NextGenerators]_vars

SpecStreamers == InitStreamers /\ [][NextStreamers]_vars

(***************************************************************************)
(* Properties.                                                             *)
(***************************************************************************)
\* the chunk coordinate of a position, for chunks of the given size
FocalChunk(p, size) == <<p[1] \div size, p[2] \div size>>

\* the chunk coordinates within Chebyshev distance r of c
Square(c, r) == ((c[1] - r)..(c[1] + r)) \X ((c[2] - r)..(c[2] + r))

\* C1: an update whose position lies in the focal chunk of the update before
\* it creates no chunk and evicts none: the loaded chunks, and their cached
\* grids, are those left by the first call (both streamers).
IdempotentStreaming ==
    [][ /\ ( /\ variant = "updateTerrain"
             /\ op # "new"
             /\ op' = "updateTerrain"
             /\ FocalChunk(playerPosition', chunkSize) = FocalChunk(playerPosition, chunkSize) )
           => chunks' = chunks
        /\ ( /\ variant = "visibleChunks"
             /\ op # "new"
             /\ op' = "updateVisibleChunks"
             /\ FocalChunk(playerPosition', width) = FocalChunk(playerPosition, width) )
           => (terrainChunks' = terrainChunks /\ heightMaps' = heightMaps) ]_vars

\* C1 witness: updateTerrain was called at (30, 10), in the focal chunk of
\* initialize(), with a stale cache among the loaded chunks
IdempotentStreamingWitness ==
    /\ variant = "updateTerrain"
    /\ op = "updateTerrain"
    /\ playerPosition = <<30, 10>>
    /\ DOMAIN chunks = Square(<<0, 0>>, visibleDistance)
    /\ <<0, 0>> \in DOMAIN pondLocations
    /\ Len(pondLocations[<<0, 0>>]) = 1
    /\ chunks[<<-1, -1>>].heightMap.ponds = EmptyMap

\* C2: after initialize() and after every completed updateTerrain(p), every
\* chunk within Chebyshev distance visibleDistance of the focal chunk of p
\* is loaded.
LoadRadiusCoverage ==
    (variant = "updateTerrain" /\ op # "new")
        => \A k \in Square(FocalChunk(playerPosition, chunkSize), visibleDistance) :
              k \in DOMAIN chunks

\* C2 witness: updateTerrain at (130, 10) has completed and (4, 2) is loaded
LoadRadiusCoverageWitness ==
    /\ variant = "updateTerrain"
    /\ op = "updateTerrain"
    /\ playerPosition = <<130, 10>>
    /\ <<4, 2>> \in DOMAIN chunks

\* C3: in the streamers that track a focal chunk, an update that changes the
\* focal chunk unloads a loaded chunk exactly when its Chebyshev distance
\* from the new focal chunk exceeds loadDistance + 1.
EvictionThreshold ==
    [][ /\ ( /\ variant = "visibleChunks"
             /\ op' = "updateVisibleChunks"
             /\ FocalChunk(playerPosition', width) # <<currentChunkX, currentChunkZ>> )
           => \A k \in terrainChunks :
                 (k \notin terrainChunks')
                    <=> (Chebyshev(k, FocalChunk(playerPosition', width)) > 3)
        /\ ( /\ variant = "scenery"
             /\ op' = "updateSceneryChunks"
             /\ FocalChunk(playerPosition', width)
                  # <<currentPlayerChunk.x, currentPlayerChunk.z>> )
           => \A k \in DOMAIN sceneryChunks :
                 (k \notin DOMAIN sceneryChunks')
                    <=> (Chebyshev(k, FocalChunk(playerPosition', width)) > 3) ]_vars

\* C3 witness: the scenery focal chunk moved from (0, 0) to (2, 0); chunk
\* (-2, 0), loaded by initialize(), is gone and (-1, 0), at distance 3, stays
EvictionThresholdWitness ==
    /\ variant = "scenery"
    /\ op = "updateSceneryChunks"
    /\ currentPlayerChunk = [x |-> 2, z |-> 0]
    /\ <<-2, 0>> \notin DOMAIN sceneryChunks
    /\ <<-1, 0>> \in DOMAIN sceneryChunks

\* C4: initialize() followed by updateTerrain at (130, 0): the chunks evicted
\* are exactly the loaded chunks further than 3 from (2, 0), and every chunk
\* from (0, -2) to (4, 2) is loaded.
ExampleScenario ==
    [][ ( /\ variant = "updateTerrain"
          /\ op = "initialize"
          /\ op' = "updateTerrain"
          /\ playerPosition' = <<130, 0>> )
        => /\ \A k \in DOMAIN chunks :
                 (k \notin DOMAIN chunks') <=> (Chebyshev(k, <<2, 0>>) > 3)
           /\ \A k \in (0..4) \X ((-2)..2) : k \in DOMAIN chunks' ]_vars

\* C5: after initialize() of the part_002 streamer (also the one run by
\* reset()), the 25 chunks (-2..2, -2..2) are loaded.
InitialLoad ==
    (variant = "visibleChunks" /\ op \in {"initialize", "reset"})
        => terrainChunks = ((-2)..2) \X ((-2)..2)

\* C6: for every loaded chunk and every sample of its cached heightMap, the
\* cached value equals calculateHeightAt at that world position in the
\* current state.
CachedGridIsCalculated ==
    variant = "updateTerrain"
        => \A k \in DOMAIN chunks :
           \A z \in 0..(gridSize - 1) :
           \A x \in 0..(gridSize - 1) :
              heightMapAt(chunks[k].heightMap, z, x)
                 = calculateHeightAt(pondLocations, seed,
                                     Whole(k[1] * chunkSize + x * chunkResolution),
                                     Whole(k[2] * chunkSize + z * chunkResolution))

\* C7: two loaded chunks that share an edge hold the same cached samples on
\* that edge, whatever the order in which they and their ponds were created.
SeamContinuity ==
    variant = "updateTerrain"
        => \A a \in DOMAIN chunks :
           \A i \in 0..(gridSize - 1) :
              /\ <<a[1] + 1, a[2]>> \in DOMAIN chunks
                    => heightMapAt(chunks[a].heightMap, i, gridSize - 1)
                          = heightMapAt(chunks[<<a[1] + 1, a[2]>>].heightMap, i, 0)
              /\ <<a[1], a[2] + 1>> \in DOMAIN chunks
                    => heightMapAt(chunks[a].heightMap, gridSize - 1, i)
                          = heightMapAt(chunks[<<a[1], a[2] + 1>>].heightMap, 0, i)

\* C8: with no reset in between, getHeightAt returns the same elevation for
\* the same grid sample point before and after every step of the session.
ElevationDeterministic ==
    [][ (variant = "updateTerrain" /\ op # "new" /\ op' # "reset")
        => \A q \in {p \in QueryPoints : p[1].eps = 0 /\ p[2].eps = 0} :
              getHeightAt(chunks', pondLocations', seed', q[1], q[2]).result.height
                 = getHeightAt(chunks, pondLocations, seed, q[1], q[2]).result.height ]_vars

\* C9: getHeightAt for a position whose chunk is not loaded returns the
\* number calculateHeightAt gives in the state of the call, and leaves
\* the loaded chunks and the pond lists as they were.
UnloadedFallback ==
    [][ ( /\ variant = "updateTerrain"
          /\ op' = "getHeightAt"
          /\ result'.fn = "getHeightAt"
          /\ <<FloorDiv(result'.x, chunkSize), FloorDiv(result'.z, chunkSize)>>
                \notin DOMAIN chunks )
        => /\ result'.height \in Int
           /\ result'.height = calculateHeightAt(pondLocations, seed, result'.x, result'.z)
           /\ chunks' = chunks
           /\ pondLocations' = pondLocations ]_vars

\* C9 witness: with 25 chunks loaded, getHeightAt answered for (-150, 0),
\* whose chunk (-3, 0) is not loaded
UnloadedFallbackWitness ==
    /\ variant = "updateTerrain"
    /\ op = "getHeightAt"
    /\ result.x = Whole(-150)
    /\ ~result.cached
    /\ Cardinality(DOMAIN chunks) = 25
    /\ <<-3, 0>> \notin DOMAIN chunks

\* C10: getHeightAt on a chunk with a cached grid reads the grid at indices
\* 0 <= x0 <= x1 <= length - 1 and 0 <= z0 <= z1 <= length - 1 (both
\* terrain generators).
BilinearIndicesInGrid ==
    (op = "getHeightAt" /\ result.cached)
        => /\ 0 <= result.x0 /\ result.x0 <= result.x1 /\ result.x1 <= result.length - 1
           /\ 0 <= result.z0 /\ result.z0 <= result.z1 /\ result.z1 <= result.length - 1
           /\ result.height \in Int

\* C10 witness: a query just below 0 on the x axis read the last two columns
\* of the cached grid of chunk (-1, 0)
BilinearIndicesInGridWitness ==
    /\ variant = "updateTerrain"
    /\ op = "getHeightAt"
    /\ result.cached
    /\ result.x = Below(0)
    /\ result.x0 = gridSize - 2
    /\ result.x1 = gridSize - 1

\* the blades of grassData that are cut
CutBlades(data) == {i \in DOMAIN data : data[i].state = 1}

\* C11: a blade that is Cut stays Cut through every mow, update and grass
\* generation; only reset() stands it up again (both grass systems).
MonotonicMowing ==
    [][ (variant \in {"grass", "chunkedGrass"} /\ op' # "reset")
        => \A i \in CutBlades(grassData) :
              /\ i \in DOMAIN grassData'
              /\ grassData'[i].position = grassData[i].position
              /\ grassData'[i].state = 1 ]_vars

\* C11 witness: a second batch of blades was generated behind a cut blade
MonotonicMowingWitness ==
    /\ variant = "chunkedGrass"
    /\ op = "updateGrassChunks"
    /\ Len(batches) >= 2
    /\ Len(grassData) >= 3
    /\ grassData[1].state = 1
    /\ grassData[Len(grassData)].state = 0

\* C12: in GrassSystem.ts, mowedGrass is the number of blades that lay
\* strictly within 0.8 of at least one mow position since the blades were
\* last all uncut; exactly those blades are cut.
CoverageConservation ==
    (variant = "grass" /\ grassMesh)
        => LET swept == {i \in DOMAIN grassData :
                           \E p \in mowPositions :
                              (grassData[i].position.x - p[1]) * (grassData[i].position.x - p[1])
                              + (grassData[i].position.z - p[2]) * (grassData[i].position.z - p[2])
                                 < 64}
           IN  /\ mowedGrass = Cardinality(swept)
               /\ CutBlades(grassData) = swept

\* C12 witness: blades at 0.5, 0.8 and 1.0 from the mower, one mow call,
\* only the first blade is cut
CoverageConservationWitness ==
    /\ variant = "grass"
    /\ op = "mow"
    /\ mowPositions = { <<0, 0>> }
    /\ Len(grassData) = 3
    /\ grassData[1] = [position |-> [x |-> 5, y |-> 300, z |-> 0], state |-> 1]
    /\ grassData[2] = [position |-> [x |-> 8, y |-> 300, z |-> 0], state |-> 0]
    /\ grassData[3] = [position |-> [x |-> 10, y |-> 300, z |-> 0], state |-> 0]
    /\ mowedGrass = 1

\* C13: mow returns the number of blades it changed from Uncut to Cut, which
\* is the increase of getMowedGrass(); the same call made again at once
\* returns 0 and changes no blade (both grass systems).
MowReturnsNewlyCut ==
    [][ (variant \in {"grass", "chunkedGrass"} /\ op' = "mow")
        => /\ result'.returned
                 = Cardinality({i \in DOMAIN grassData :
                                   grassData[i].state = 0 /\ grassData'[i].state = 1})
           /\ result'.returned = mowedGrass' - mowedGrass
           /\ (op = "mow" /\ [result' EXCEPT !.returned = 0] = [result EXCEPT !.returned = 0])
                 => (result'.returned = 0 /\ grassData' = grassData) ]_vars

\* C13 witness: the lawn was mown at the origin only, with a blade cut, and
\* the last call there returned 0
MowReturnsNewlyCutWitness ==
    /\ variant = "grass"
    /\ op = "mow"
    /\ mowPositions = { <<0, 0>> }
    /\ result.position = <<0, 0>>
    /\ result.returned = 0
    /\ mowedGrass > 0

\* C14: getMowedPercentage() is mowedGrass / totalGrass * 100, and 0 when
\* totalGrass is 0; never NaN (both grass systems).
MowedPercentageDefined ==
    (variant \in {"grass", "chunkedGrass"} /\ op = "getMowedPercentage")
        => /\ result.value.is = "number"
           /\ IF totalGrass = 0
              THEN result.value.num = 0
              ELSE result.value.num = mowedGrass * 100 /\ result.value.den = totalGrass

\* C15: reset() leaves the number of blades and every position as they
\* were, every blade Uncut and the cut count 0 (both grass systems).
ResetFrame ==
    [][ (variant \in {"grass", "chunkedGrass"} /\ op' = "reset")
        => /\ Len(grassData') = Len(grassData)
           /\ \A i \in DOMAIN grassData :
                 /\ grassData'[i].position = grassData[i].position
                 /\ grassData'[i].state = 0
           /\ mowedGrass' = 0 ]_vars

\* C15 witness: a reset of a full chunked lawn of three batches
ResetFrameWitness ==
    /\ variant = "chunkedGrass"
    /\ op = "reset"
    /\ Len(grassData) = grassCount
    /\ Len(batches) >= 3
    /\ mowedGrass = 0
    /\ CutBlades(grassData) = {}

\* C16: the chunked grass system never holds more than grassCount blades,
\* and once it holds grassCount an updateGrassChunks call adds none.
PopulationCap ==
    [][ variant = "chunkedGrass"
        => /\ Len(grassData') <= grassCount
           /\ (Len(grassData) >= grassCount /\ op' = "updateGrassChunks")
                 => grassData' = grassData ]_vars

\* C16 witness: the cap is reached and the mower has since entered a chunk
\* for which no batch was generated
PopulationCapWitness ==
    /\ variant = "chunkedGrass"
    /\ op = "updateGrassChunks"
    /\ Len(grassData) = grassCount
    /\ batches[Len(batches)] # <<grassPlayerChunk.x, grassPlayerChunk.z>>

\* C17: updateGrassChunks generates no blades for a chunk coordinate that
\* already had its batch: at most one batch per chunk, also when the mower
\* leaves a chunk and returns.
OneBatchPerChunk ==
    [][ ( /\ variant = "chunkedGrass"
          /\ op' = "updateGrassChunks"
          /\ \E i \in DOMAIN batches :
                batches[i] = FocalChunk(playerPosition', grassChunkSize) )
        => grassData' = grassData ]_vars

\* what the claim compares of a scenery object
Placement(object) ==
    [type |-> object.type, x |-> object.x, y |-> object.y, z |-> object.z,
     rotation |-> object.rotation]

Placements(objects) == {Placement(objects[k]) : k \in DOMAIN objects}

LiveObjectsInLoadedChunks ==
    variant = "scenery"
       => \A k \in DOMAIN sceneryObjects :
             <<sceneryObjects[k].x \div width, sceneryObjects[k].z \div width>>
                \in DOMAIN sceneryChunks

\* C20: after generateScenery of WeatherTransition.tsx every live object,
\* of every type, has its mesh in the obstacle list of the terrain.
ObstaclesCoverObjects ==
    (variant = "generateScenery" /\ op \in {"initialize", "reset"})
       => \A k \in DOMAIN placedObjects :
             \E j \in DOMAIN obstacles : obstacles[j] = placedObjects[k].mesh

\* C25: the directional mow of GameHUD.tsx cuts an uncut blade exactly when
\* the blade is within the radius of the mower and in the forward arc of the
\* heading (positive dot product of heading and the vector to the blade).
ForwardArcMow ==
    [][ (variant = "chunkedGrass" /\ op' = "mow" /\ grassMesh)
        => \A i \in DOMAIN grassData :
              grassData[i].state = 0
                 => LET tx == grassData[i].position.x - result'.position[1]
                        tz == grassData[i].position.z - result'.position[2]
                    IN  grassData'[i].state = 1
                           <=> /\ tx * tx + tz * tz <= 64
                               /\ result'.direction[1] * tx + result'.direction[2] * tz > 0 ]_vars

\* C26: in the part_002 streamer the chunks that have a cached height grid
\* are exactly the loaded chunks.
CacheOnlyForLoadedChunks ==
    variant = "visibleChunks" => DOMAIN heightMaps = terrainChunks

\* C27: the pond falloff of calculateHeightAt gives the full depression
\* (0.3 under the water level) at the centre, leaves the height alone from
\* 1.5 radius on, and does not jump at the rim: the heights a thousandth
\* inside the rim and on the rim differ by no more than a thousandth.
PondFalloffSmooth ==
    [][ (variant = "calculateHeightAt" /\ op' = "calculateHeightAt")
        => /\ result'.distance = 0 => result'.value = waterLevel - 300
           /\ 2 * result'.distance >= 3000 * result'.radius
                 => result'.value = result'.height
           /\ ( /\ op = "calculateHeightAt"
                /\ result'.height = result.height
                /\ result'.radius = result.radius
                /\ result.distance = 1000 * result.radius - 1
                /\ result'.distance = 1000 * result.radius )
                 => (result'.value - result.value <= 1 /\ result.value - result'.value <= 1) ]_vars

\* C29: in both grass systems mowedGrass is the number of cut blades and
\* lies between 0 and totalGrass, which after initialize() is the number of
\* blades generated.
CutCounterConsistent ==
    variant \in {"grass", "chunkedGrass"}
       => /\ mowedGrass = Cardinality(CutBlades(grassData))
          /\ 0 <= mowedGrass
          /\ mowedGrass <= totalGrass
          /\ grassMesh => totalGrass = Len(grassData)

\* C29 witness: blades were cut and a later batch of blades was generated
CutCounterConsistentWitness ==
    /\ variant = "chunkedGrass"
    /\ op = "updateGrassChunks"
    /\ mowedGrass >= 2
    /\ Len(grassData) = grassCount
    /\ grassData[Len(grassData)].state = 0

\* C21: onSceneryDiscovered is called at most once for one scenery object
\* (one type at one position), whatever the focal moves, checks, evictions
\* and reloads (part_005).
DiscoveryFiresOnce ==
    variant = "scenery"
       => \A i, j \in DOMAIN discoveries :
             i # j => discoveries[i] # discoveries[j]

\* squared planar distance in square metres, and height difference in
\* thousandths, of an object and a position
Planar2(o, p) == (o.x - p.x) * (o.x - p.x) + (o.z - p.z) * (o.z - p.z)

Rise(o, p) == IF o.y >= p.y THEN o.y - p.y ELSE p.y - o.y

\* the objects checkForDiscovery can report from position p: not yet
\* discovered and nearer than 5 metres
Discoverable(objects, p) ==
    {k \in DOMAIN objects :
        /\ ~objects[k].discovered
        /\ Planar2(objects[k], p) < 25
        /\ Rise(objects[k], p) < 5000
        /\ Planar2(objects[k], p) * 1000000 + Rise(objects[k], p) * Rise(objects[k], p)
              < 25000000}

\* C22: one checkForDiscovery call reports and marks the first discoverable
\* object of the list and no other; with none discoverable it does nothing.
OneDiscoveryPerCall ==
    [][ (variant = "scenery" /\ op' = "checkForDiscovery")
        => LET found == Discoverable(sceneryObjects, result'.position)
           IN  IF found = {}
               THEN sceneryObjects' = sceneryObjects /\ discoveries' = discoveries
               ELSE LET first == CHOOSE k \in found : \A h \in found : k <= h
                    IN  /\ sceneryObjects'
                              = [sceneryObjects EXCEPT ![first].discovered = TRUE]
                        /\ Len(discoveries') = Len(discoveries) + 1
                        /\ discoveries'[Len(discoveries')].type = sceneryObjects[first].type
                        /\ SubSeq(discoveries', 1, Len(discoveries)) = discoveries ]_vars

\* C22 witness: a call reported one object and left another discoverable one
\* in range for a later call
OneDiscoveryPerCallWitness ==
    /\ variant = "scenery"
    /\ op = "checkForDiscovery"
    /\ Len(discoveries) = 1
    /\ Discoverable(sceneryObjects, result.position) # {}

(***************************************************************************)
(* GameManager (part_000): the order of the async calls, the blades and    *)
(* the obstacles, the blades and the terrain, and the idle tick.           *)
(***************************************************************************)
\* C23: whenever the grass, the scenery or the mower asks getHeightAt for a
\* position within the load radius of the current focal chunk, the chunk
\* that contains the position has already been created
ChunkCreatedBeforeQuery ==
    \A q \in heightQueries :
        Chebyshev(q.key, q.focal) <= visibleDistance => q.created

\* the blade as checkCollision sees it: metres, with its stored y
bladePosition(grass) ==
    [x |-> grass.position.x \div 10, y |-> grass.position.y, z |-> grass.position.z \div 10]

\* C24: once preloadAssets has completed, checkCollision(blade position,
\* 1.0) is false for every blade generateGrass kept, with respect to the
\* obstacles the scenery generator registered
BladesClearOfObstacles ==
    (variant = "gameManager" /\ op # "new" /\ Drained) =>
        \A i \in DOMAIN grassData :
            ~checkCollision(obstacles, bladePosition(grassData[i]), 1000)

\* C28: after any sequence of game operations, resetGame among them, the y
\* stored in every blade is the terrain elevation at the blade's (x, z)
BladeHeightsFollowTerrain ==
    variant = "gameManager" =>
        \A i \in DOMAIN grassData :
            grassData[i].position.y =
                heightAt(TerrainState, seed, grassData[i].position.x \div 10,
                         grassData[i].position.z \div 10)

\* C30: a tick of update() while the game is paused, not yet started, or
\* the mower is switched off applies no mow: the blades, the cut counter
\* and totalAreaMowed are what they were before the tick
IdleTickMowsNothing ==
    [][(variant = "gameManager" /\ op' = "update"
          /\ (~isRunning \/ ~gameStarted \/ ~mowerRunning))
       => (grassData' = grassData /\ mowedGrass' = mowedGrass
             /\ totalAreaMowed' = totalAreaMowed)]_vars

\* a tick has run with the mower switched off while an uncut blade stood
\* within the mowing radius of the mower
IdleTickMowsNothingWitness ==
    /\ variant = "gameManager"
    /\ op = "update"
    /\ result.ran
    /\ ~mowerRunning
    /\ \E i \in DOMAIN grassData :
          /\ grassData[i].state = 0
          /\ withinRadius(grassData[i], <<10 * result.position[1], 10 * result.position[2]>>)
====
